---- MODULE Spec2Model ----
(***************************************************************************)
(* A model of the PageIndex code indexer: the per-language extractors      *)
(* (pageindex/page_index_{python,java,cpp,kotlin}.py) and the code_to_tree *)
(* pipeline (pageindex/page_index_code.py).                                *)
(*                                                                         *)
(* A node is a Python dict, modelled as a function from field names to     *)
(* values; a field that is absent from the dict is absent from the domain. *)
(* A text is a sequence of tokens, "\n" being the newline.                 *)
(***************************************************************************)
EXTENDS Integers, Sequences, FiniteSets, TLC

VARIABLES
    \* ---- code_to_tree pipeline (page_index_code.py)
    opts,        \* the keyword arguments of code_to_tree
    input,       \* the structure as build_file_tree / build_directory_tree returned it
    structure,   \* the local variable `structure` of code_to_tree
    pc,          \* index into Pipeline of the stage to run next
    gathering,   \* TRUE while generate_summaries_for_code_structure awaits asyncio.gather
    tasks,       \* the coroutines handed to asyncio.gather, in code_nodes order
    outcome,     \* "running", "returned" or "raised"
    result,      \* what code_to_tree returned to its caller: <<>> before / without a return
    \* ---- one build_*_file_tree call (page_index_{python,java,cpp,kotlin}.py)
    lang,        \* "python", "java", "c", "cpp" or "kotlin" ("none" in the pipeline runs)
    tree,        \* what the parser gave for the file: the syntax tree (no parser for Kotlin)
    lines,       \* the lines of the file; for Kotlin, the lines the scanner has consumed
    current_brace_balance,   \* extract_nodes_from_kotlin
    stack,                   \* extract_nodes_from_kotlin: frames [node, start_balance]
    nodes,                   \* extract_nodes_from_kotlin: every node dict created so far,
                             \* with the index of the node whose child list holds it (0: the root list);
                             \* for the other languages, the list extract_nodes_from_* returned
    import_start_line,       \* extract_nodes_from_kotlin (0 is None)
    import_end_line,         \* extract_nodes_from_kotlin (0 is None)
    file_node,   \* what build_*_file_tree returned: <<>> before the return
    \* ---- the entry of code_to_tree (page_index_code.py)
    target,      \* what the `path` argument of code_to_tree names in the file system
    built_files, \* the names of the files build_file_tree was called on, in call order
    error        \* the message of the ValueError code_to_tree raised ("": none)

pipeVars == <<opts, input, structure, pc, gathering, tasks, outcome, result>>

extractVars == <<lang, tree, lines, current_brace_balance, stack, nodes,
                 import_start_line, import_end_line, file_node>>

buildVars == <<target, built_files, error>>

vars == <<opts, input, structure, pc, gathering, tasks, outcome, result,
          lang, tree, lines, current_brace_balance, stack, nodes,
          import_start_line, import_end_line, file_node,
          target, built_files, error>>

-----------------------------------------------------------------------------
(* Bounds of the model *)

\* largest number of nodes of an input structure (the root included)
MaxNodes == 4

\* largest number of lines of a Kotlin file
MaxLines == 4

\* the most nodes of a syntax tree handed over by a parser, its root included
MaxSyntaxNodes == 5

\* the most entries of the file system below and at the path given to code_to_tree
MaxEntries == 4

-----------------------------------------------------------------------------
(* Python dict and list helpers *)

Get(node, key, default) == IF key \in DOMAIN node THEN node[key] ELSE default

DelKey(node, key) == [f \in DOMAIN node \ {key} |-> node[f]]

SetKey(node, key, val) ==
    [f \in DOMAIN node \cup {key} |-> IF f = key THEN val ELSE node[f]]

Min(a, b) == IF a < b THEN a ELSE b

Max(a, b) == IF a > b THEN a ELSE b

RECURSIVE SumSeq(_)
SumSeq(s) == IF s = <<>> THEN 0 ELSE s[1] + SumSeq(Tail(s))

RECURSIVE Flatten(_)
Flatten(ss) == IF ss = <<>> THEN <<>> ELSE ss[1] \o Flatten(Tail(ss))

SeqRange(s) == {s[i] : i \in 1..Len(s)}

-----------------------------------------------------------------------------
(* utils.py collaborators (not part of the sources at hand) *)

\* count_tokens(text, model): deterministic; one token per element of the text
count_tokens(text) == Len(text)

\* str(node_id).zfill(4): the decimal digits, left-padded with "0" to width 4
RECURSIVE Digits(_)
Digits(n) == IF n < 10 THEN <<n>> ELSE Digits(n \div 10) \o <<n % 10>>

zfill4(n) ==
    LET d == Digits(n)
    IN  [i \in 1..(Max(Len(d), 4) - Len(d)) |-> 0] \o d

\* write_node_id(data, node_id): one pre-order pass threading the counter;
\* returns the rewritten list and the next free counter
RECURSIVE write_node_id(_, _)
write_node_id(data, node_id) ==
    IF data = <<>> THEN [data |-> <<>>, next |-> node_id]
    ELSE LET head == SetKey(data[1], "node_id", zfill4(node_id))
             kids == IF "nodes" \in DOMAIN head
                     THEN write_node_id(head.nodes, node_id + 1)
                     ELSE [data |-> <<>>, next |-> node_id + 1]
             head2 == IF "nodes" \in DOMAIN head
                      THEN [head EXCEPT !.nodes = kids.data] ELSE head
             rest == write_node_id(Tail(data), kids.next)
         IN  [data |-> <<head2>> \o rest.data, next |-> rest.next]

\* structure_to_list(structure): the nodes in pre-order; a node is referred to
\* by its path (the child indices from the root), which stands for the
\* reference to the dict object
RECURSIVE structure_to_list(_, _)
structure_to_list(node, path) ==
    LET kids == Get(node, "nodes", <<>>)
    IN  <<path>> \o
        Flatten([i \in 1..Len(kids) |-> structure_to_list(kids[i], Append(path, i))])

RECURSIVE NodeAt(_, _)
NodeAt(node, path) ==
    IF path = <<>> THEN node ELSE NodeAt(node.nodes[path[1]], Tail(path))

RECURSIVE SetAt(_, _, _, _)
SetAt(node, path, key, val) ==
    IF path = <<>> THEN SetKey(node, key, val)
    ELSE [node EXCEPT !.nodes[path[1]] = SetAt(@, Tail(path), key, val)]

AllNodes(node) ==
    LET paths == structure_to_list(node, <<>>)
    IN  [i \in 1..Len(paths) |-> NodeAt(node, paths[i])]

\* the fields format_structure keeps, base_order of code_to_tree
base_order ==
    {"title", "node_id", "type", "signature", "docstring", "decorators",
     "start_line", "end_line", "summary", "prefix_summary", "text", "path", "nodes"}

\* format_structure(structure, order): keeps the ordered fields and drops an
\* empty child list
RECURSIVE format_structure(_)
format_structure(node) ==
    LET n1 == IF "nodes" \in DOMAIN node
              THEN [node EXCEPT !.nodes =
                        [i \in 1..Len(node.nodes) |-> format_structure(node.nodes[i])]]
              ELSE node
        n2 == IF Get(n1, "nodes", <<>>) = <<>> THEN DelKey(n1, "nodes") ELSE n1
    IN  [f \in DOMAIN n2 \cap base_order |-> n2[f]]

-----------------------------------------------------------------------------
(* page_index_code.py: tree shaping *)

RECURSIVE clean_empty_nodes(_)
clean_empty_nodes(node) ==
    IF "nodes" \in DOMAIN node
    THEN LET cleaned == [i \in 1..Len(node.nodes) |-> clean_empty_nodes(node.nodes[i])]
         IN  IF cleaned = <<>> THEN DelKey(node, "nodes")
             ELSE [node EXCEPT !.nodes = cleaned]
    ELSE node

RECURSIVE get_node_tokens(_)
get_node_tokens(node) ==
    LET text == Get(node, "text", <<>>)
        own  == IF text # <<>> THEN count_tokens(text) ELSE 0
        kids == Get(node, "nodes", <<>>)
    IN  own + SumSeq([i \in 1..Len(kids) |-> get_node_tokens(kids[i])])

\* a slip: a file is merged like a class
ThinKinds_with_file == {"class", "function", "method", "file"}

\* the kinds thin_node merges
ThinKinds == {"class", "function", "method"}

\* the loop of thin_node that appends the children's texts to merged_text
RECURSIVE merge_children_text(_, _)
merge_children_text(merged_text, kids) ==
    IF kids = <<>> THEN merged_text
    ELSE LET child_text == Get(kids[1], "text", <<>>)
             sep == IF merged_text # <<>> /\ merged_text[Len(merged_text)] # "\n"
                    THEN merged_text \o <<"\n">> ELSE merged_text
         IN  merge_children_text(IF child_text # <<>> THEN sep \o child_text
                                 ELSE merged_text, Tail(kids))

\* a slip: the merged node keeps its child list
merge_into_parent_keeps_nodes(node) ==
    SetKey(node, "text", merge_children_text(Get(node, "text", <<>>), node.nodes))

\* the merge of thin_node: node['text'] = merged_text; del node['nodes']
merge_into_parent(node) ==
    DelKey(SetKey(node, "text", merge_children_text(Get(node, "text", <<>>), node.nodes)),
           "nodes")

RECURSIVE thin_node(_, _)
thin_node(node, min_token_threshold) ==
    IF "nodes" \notin DOMAIN node \/ node.nodes = <<>> THEN node
    ELSE LET node1 == [node EXCEPT !.nodes =
                          [i \in 1..Len(node.nodes) |->
                              thin_node(node.nodes[i], min_token_threshold)]]
             total_tokens == get_node_tokens(node1)
         IN  IF total_tokens < min_token_threshold /\ Get(node1, "type", "") \in ThinKinds
             THEN merge_into_parent(node1)
             ELSE node1

tree_thinning_for_code(struct, min_token_threshold) ==
    thin_node(struct, min_token_threshold)

RECURSIVE remove_text_from_structure(_)
remove_text_from_structure(node) ==
    LET n1 == DelKey(node, "text")
    IN  IF "nodes" \in DOMAIN n1
        THEN [n1 EXCEPT !.nodes =
                 [i \in 1..Len(n1.nodes) |-> remove_text_from_structure(n1.nodes[i])]]
        ELSE n1

\* a slip: the path is taken from the top node alone
remove_path_top_only(node) == DelKey(node, "path")

RECURSIVE remove_path_from_structure(_)
remove_path_from_structure(node) ==
    LET n1 == DelKey(node, "path")
    IN  IF "nodes" \in DOMAIN n1
        THEN [n1 EXCEPT !.nodes =
                 [i \in 1..Len(n1.nodes) |-> remove_path_from_structure(n1.nodes[i])]]
        ELSE n1

\* the white space a text can begin or end with: a newline, or the blanks of
\* an indented line
Whitespace == {"\n", " "}

\* str.strip() on a text: leading and trailing white space goes
RECURSIVE strip(_)
strip(text) ==
    IF text = <<>> THEN text
    ELSE IF text[1] \in Whitespace THEN strip(Tail(text))
    ELSE IF text[Len(text)] \in Whitespace THEN strip(SubSeq(text, 1, Len(text) - 1))
    ELSE text

\* a slip: the text is copied as it is
imports_summary_unstripped(node) == Get(node, "text", <<>>)

\* structure.get('text', '').strip()
imports_summary(node) == strip(Get(node, "text", <<>>))

RECURSIVE preserve_imports_text(_)
preserve_imports_text(node) ==
    LET n1 == IF Get(node, "type", "") = "imports"
              THEN SetKey(node, "summary", imports_summary(node))
              ELSE node
    IN  IF "nodes" \in DOMAIN n1
        THEN [n1 EXCEPT !.nodes =
                 [i \in 1..Len(n1.nodes) |-> preserve_imports_text(n1.nodes[i])]]
        ELSE n1

-----------------------------------------------------------------------------
(* page_index_code.py: summaries *)

\* the kinds generate_summaries_for_code_structure keeps in code_nodes
SummaryKinds == {"class", "function", "method", "interface", "enum", "file"}

\* node_text[:200] of get_code_node_summary
LocalSummaryChars == 200

\* code_nodes: the filtered nodes of structure_to_list, as paths
code_nodes_of(struct) ==
    SelectSeq(structure_to_list(struct, <<>>),
              LAMBDA p : Get(NodeAt(struct, p), "type", "") \in SummaryKinds)

\* docstring.strip().split('\n')[0]
RECURSIVE first_line(_)
first_line(text) ==
    IF text = <<>> \/ text[1] = "\n" THEN <<>> ELSE <<text[1]>> \o first_line(Tail(text))

\* a slip: a node of as many tokens as the threshold is summarized locally
is_local_summary_at_threshold(node, summary_token_threshold) ==
    count_tokens(Get(node, "text", <<>>)) <= summary_token_threshold

\* get_code_node_summary answers without a call to the model below the threshold
is_local_summary(node, summary_token_threshold) ==
    count_tokens(Get(node, "text", <<>>)) < summary_token_threshold

local_summary(node) ==
    LET node_text == Get(node, "text", <<>>)
        docstring == Get(node, "docstring", <<>>)
    IN  IF docstring # <<>> THEN first_line(strip(docstring))
        ELSE SubSeq(node_text, 1, Min(Len(node_text), LocalSummaryChars))

\* the answer of ChatGPT_API_async to the prompt built from this node
model_response(node) == <<"response to", node.title>>

\* a slip: asyncio.gather(..., return_exceptions=True) never raises
gather_swallows_exceptions(ts) == FALSE

\* await asyncio.gather(*tasks) raises as soon as one task has raised
gather_raises(ts) == \E i \in 1..Len(ts) : ts[i].status = "failed"

\* a slip: every node gets `summary`
assign_always_summary(node, summary) == SetKey(node, "summary", summary)

\* the body of the zip loop
assign_summary(node, summary) ==
    IF Get(node, "nodes", <<>>) # <<>>
    THEN SetKey(node, "prefix_summary", summary)
    ELSE SetKey(node, "summary", summary)

RECURSIVE SetNodeAt(_, _, _)
SetNodeAt(node, path, new) ==
    IF path = <<>> THEN new
    ELSE [node EXCEPT !.nodes[path[1]] = SetNodeAt(@, Tail(path), new)]

\* a slip: every node gets the summary the last request returned
RECURSIVE assign_last_summary_to_all(_, _)
assign_last_summary_to_all(struct, ts) ==
    IF ts = <<>> THEN struct
    ELSE assign_last_summary_to_all(
             SetNodeAt(struct, ts[1].path,
                       assign_summary(NodeAt(struct, ts[1].path), ts[Len(ts)].summary)),
             Tail(ts))

\* for node, summary in zip(code_nodes, summaries): ...
RECURSIVE assign_summaries(_, _)
assign_summaries(struct, ts) ==
    IF ts = <<>> THEN struct
    ELSE assign_summaries(
             SetNodeAt(struct, ts[1].path,
                       assign_summary(NodeAt(struct, ts[1].path), ts[1].summary)),
             Tail(ts))

-----------------------------------------------------------------------------
(* The structures build_file_tree and build_directory_tree hand to the pipeline *)

Names == <<"n1", "n2", "n3", "n4", "n5", "n6">>

\* the kinds a node of each kind can have as children
ChildKinds(k) ==
    CASE k = "directory" -> {"directory", "file"}
      [] k = "file"      -> {"imports", "class", "function", "object"}
      [] k = "imports"   -> {"import"}
      [] k = "class"     -> {"method"}
      [] k = "object"    -> {"method"}
      [] k = "method"    -> {"function"}
      [] OTHER           -> {}

\* the texts of the input nodes: one token, or three ending in a newline; the
\* text of an imports node begins with the blanks of an indented line
TextSet == {<<"x">>, <<"x", "x", "\n">>}

TextsOf(k) ==
    CASE k = "directory"            -> {<<>>}
      [] k = "file"                 -> {<<"x", "x", "\n">>}
      [] k = "imports"              -> {<<" ", "x">>}
      [] k \in {"import", "object"} -> {<<"x">>}
      [] OTHER                      -> TextSet

\* the last node of a flat tree and its ancestors
RECURSIVE RightPath(_, _)
RightPath(t, i) == IF i = 0 THEN {} ELSE {i} \cup RightPath(t, t[i].parent)

\* trees of exactly n nodes in pre-order, as sequences of [kind, parent, text]
RECURSIVE FlatTrees(_)
FlatTrees(n) ==
    IF n = 1
    THEN UNION {{<<[kind |-> k, parent |-> 0, text |-> x]>> : x \in TextsOf(k)} :
                k \in {"directory", "file"}}
    ELSE UNION {UNION {UNION {{Append(t, [kind |-> k, parent |-> p, text |-> x]) :
                                  x \in TextsOf(k)} :
                              k \in ChildKinds(t[p].kind)} :
                       p \in RightPath(t, Len(t))} :
                t \in FlatTrees(n - 1)}

RECURSIVE IsUnder(_, _, _)
IsUnder(t, j, i) == j # 0 /\ (t[j].parent = i \/ IsUnder(t, t[j].parent, i))

\* has_code_content: build_directory_tree keeps a subdirectory only with a file below it
WellFormed(t) ==
    \A i \in 2..Len(t) : t[i].kind = "directory" =>
           \E j \in 1..Len(t) : t[j].kind = "file" /\ IsUnder(t, j, i)

RECURSIVE MkNode(_, _)
MkNode(t, i) ==
    LET kids == SelectSeq([j \in 1..Len(t) |-> j], LAMBDA j : t[j].parent = i)
        base == [title |-> Names[i], type |-> t[i].kind,
                 nodes |-> [c \in 1..Len(kids) |-> MkNode(t, kids[c])]]
    IN  CASE t[i].kind = "directory" -> base @@ [path |-> "p"]
          [] t[i].kind = "file"      -> base @@ [path |-> "p", text |-> t[i].text]
          [] OTHER                   -> base @@ [text |-> t[i].text]

InputTrees == UNION {{u \in FlatTrees(n) : WellFormed(u)} : n \in 1..MaxNodes}

\* default values of the keyword arguments of code_to_tree
DefaultMinTokenThreshold == 5000
DefaultSummaryTokenThreshold == 200

DefaultOpts ==
    [if_add_node_summary |-> "no", if_add_doc_description |-> "no",
     if_add_node_text |-> "no", if_add_node_id |-> "yes"]

OptionSets ==
    {o \in [if_thinning : BOOLEAN, min_token_threshold : {4, 5, DefaultMinTokenThreshold},
            if_add_node_summary : {"yes", "no"},
            summary_token_threshold : {2, DefaultSummaryTokenThreshold},
            if_add_doc_description : {"yes", "no"},
            if_add_node_text : {"yes", "no"},
            if_add_node_id : {"yes", "no"}] :
        /\ o.if_thinning <=> o.min_token_threshold # DefaultMinTokenThreshold
        /\ o.if_add_node_summary = "yes" <=>
               o.summary_token_threshold # DefaultSummaryTokenThreshold
        \* the threshold next to 5 goes with the defaults of the other options
        /\ o.min_token_threshold = 4 =>
               \A f \in DOMAIN DefaultOpts : o[f] = DefaultOpts[f]
        \* the other options leave their defaults one at a time
        /\ Cardinality({f \in DOMAIN DefaultOpts : o[f] # DefaultOpts[f]}) <= 1}

-----------------------------------------------------------------------------
(* code_to_tree as a state machine: one action per stage, the summary stage  *)
(* split at its await                                                        *)

\* a slip: the IDs are written before the tree is thinned
Pipeline_ids_first ==
    <<"ids", "thin", "clean", "summaries", "imports", "format",
      "strip_text", "strip_path", "return">>

\* the stages of code_to_tree in the order of its statements
Pipeline ==
    <<"thin", "clean", "ids", "summaries", "imports", "format",
      "strip_text", "strip_path", "return">>

Stage == IF outcome = "running" /\ pc \in 1..Len(Pipeline) THEN Pipeline[pc] ELSE "none"

StageDone(name) ==
    \E i \in 1..Len(Pipeline) : Pipeline[i] = name /\ (pc > i \/ outcome = "returned")

\* a slip: every top-level child is numbered on its own
add_node_ids_per_child(struct) ==
    LET top == write_node_id(<<DelKey(struct, "nodes")>>, 0).data[1]
    IN  IF "nodes" \in DOMAIN struct
        THEN top @@ [nodes |-> [i \in 1..Len(struct.nodes) |->
                                   write_node_id(<<struct.nodes[i]>>, 1).data[1]]]
        ELSE top

\* write_node_id([structure]): one pass over the whole tree
add_node_ids(struct) == write_node_id(<<struct>>, 0).data[1]

InitPipeline ==
    /\ \E t \in InputTrees : input = MkNode(t, 1)
    /\ opts \in OptionSets
    /\ structure = input
    /\ pc = 1
    /\ gathering = FALSE
    /\ tasks = <<>>
    /\ outcome = "running"
    /\ result = <<>>
    /\ lang = "none"
    /\ tree = <<>>
    /\ lines = <<>>
    /\ current_brace_balance = 0
    /\ stack = <<>>
    /\ nodes = <<>>
    /\ import_start_line = 0
    /\ import_end_line = 0
    /\ file_node = <<>>
    /\ target = <<>> /\ built_files = <<>> /\ error = ""

Advance(new) ==
    /\ structure' = new
    /\ pc' = pc + 1
    /\ UNCHANGED <<opts, input, gathering, tasks, outcome, result, extractVars, buildVars>>

Thin ==
    /\ Stage = "thin"
    /\ Advance(IF opts.if_thinning
               THEN tree_thinning_for_code(structure, opts.min_token_threshold)
               ELSE structure)

Clean ==
    /\ Stage = "clean"
    /\ Advance(clean_empty_nodes(structure))

AddNodeIds ==
    /\ Stage = "ids"
    /\ Advance(IF opts.if_add_node_id = "yes" THEN add_node_ids(structure) ELSE structure)

SkipSummaries ==
    /\ Stage = "summaries"
    /\ opts.if_add_node_summary # "yes"
    /\ Advance(structure)

\* generate_summaries_for_code_structure up to its await
StartSummaries ==
    /\ Stage = "summaries"
    /\ opts.if_add_node_summary = "yes"
    /\ ~gathering
    /\ gathering' = TRUE
    /\ tasks' = LET code_nodes == code_nodes_of(structure)
                IN  [i \in 1..Len(code_nodes) |->
                        [path |-> code_nodes[i], status |-> "pending", summary |-> <<>>]]
    /\ UNCHANGED <<opts, input, structure, pc, outcome, result, extractVars, buildVars>>

\* one get_code_node_summary coroutine runs to its end
TaskStep(i) ==
    /\ Stage = "summaries"
    /\ gathering
    /\ tasks[i].status = "pending"
    /\ LET node == NodeAt(structure, tasks[i].path)
       IN  IF is_local_summary(node, opts.summary_token_threshold)
           THEN tasks' = [tasks EXCEPT ![i].status = "done",
                                       ![i].summary = local_summary(node)]
           ELSE \/ tasks' = [tasks EXCEPT ![i].status = "done",
                                          ![i].summary = model_response(node)]
                \/ tasks' = [tasks EXCEPT ![i].status = "failed",
                                          ![i].summary = <<"exception">>]
    /\ UNCHANGED <<opts, input, structure, pc, gathering, outcome, result, extractVars, buildVars>>

\* the await returns and the zip loop runs
GatherReturn ==
    /\ Stage = "summaries"
    /\ gathering
    /\ \A i \in 1..Len(tasks) : tasks[i].status # "pending"
    /\ ~gather_raises(tasks)
    /\ gathering' = FALSE
    /\ structure' = assign_summaries(structure, tasks)
    /\ pc' = pc + 1
    /\ UNCHANGED <<opts, input, tasks, outcome, result, extractVars, buildVars>>

\* the await raises; nothing in code_to_tree catches it
GatherRaise ==
    /\ Stage = "summaries"
    /\ gathering
    /\ gather_raises(tasks)
    /\ gathering' = FALSE
    /\ outcome' = "raised"
    /\ UNCHANGED <<opts, input, structure, pc, tasks, result, extractVars, buildVars>>

PreserveImports ==
    /\ Stage = "imports"
    /\ Advance(preserve_imports_text(structure))

Format ==
    /\ Stage = "format"
    /\ Advance(format_structure(structure))

StripText ==
    /\ Stage = "strip_text"
    /\ Advance(IF opts.if_add_node_text = "no"
               THEN remove_text_from_structure(structure) ELSE structure)

StripPath ==
    /\ Stage = "strip_path"
    /\ Advance(remove_path_from_structure(structure))

Return ==
    /\ Stage = "return"
    /\ outcome' = "returned"
    /\ result' = IF opts.if_add_doc_description = "yes"
                 THEN <<[doc_name |-> structure.title, doc_description |-> "description",
                         structure |-> <<structure>>]>>
                 ELSE <<[doc_name |-> structure.title, structure |-> <<structure>>]>>
    /\ UNCHANGED <<opts, input, structure, pc, gathering, tasks, extractVars, buildVars>>

NextPipeline ==
    \/ Thin
    \/ Clean
    \/ AddNodeIds
    \/ SkipSummaries
    \/ StartSummaries
    \/ \E i \in 1..Len(tasks) : TaskStep(i)
    \/ GatherReturn
    \/ GatherRaise
    \/ PreserveImports
    \/ Format
    \/ StripText
    \/ StripPath
    \/ Return

SpecPipeline == InitPipeline /\ [][NextPipeline]_vars

-----------------------------------------------------------------------------
(* Properties of the pipeline *)

JustAfter(name) ==
    outcome = "running" /\ \E i \in 1..Len(Pipeline) : Pipeline[i] = name /\ pc = i + 1

HasChildren(node) == Get(node, "nodes", <<>>) # <<>>

NodeSet(struct) == SeqRange(AllNodes(struct))

\* the tree the ID pass of a run must see: the input, thinned if asked, pruned
ThinnedInput ==
    clean_empty_nodes(IF opts.if_thinning
                      THEN tree_thinning_for_code(input, opts.min_token_threshold)
                      ELSE input)

\* C3: thinning is idempotent: a second tree_thinning_for_code with the same
\* threshold leaves the thinned tree (every child list, every text) as it is
C3_ThinningIdempotent ==
    (JustAfter("thin") /\ opts.if_thinning) =>
        tree_thinning_for_code(structure, opts.min_token_threshold) = structure

\* a thinned tree in which one node was merged and another kept its children
C3_Witness ==
    /\ JustAfter("thin") /\ opts.if_thinning
    /\ Len(AllNodes(structure)) < Len(AllNodes(input))
    /\ \E n \in NodeSet(structure) : n.type \in ThinKinds /\ HasChildren(n)

\* C4: with node IDs enabled, every node of the tree carries a node_id once the
\* ID stage has run, and no two nodes carry the same one
C4_NodeIdsDistinct ==
    (StageDone("ids") /\ opts.if_add_node_id = "yes") =>
        LET ns == AllNodes(structure)
        IN  /\ \A i \in 1..Len(ns) : "node_id" \in DOMAIN ns[i]
            /\ \A i, j \in 1..Len(ns) : i # j => ns[i].node_id # ns[j].node_id

\* a returned tree with IDs that holds a directory, a file and two nodes below them
C4_Witness ==
    /\ outcome = "returned" /\ opts.if_add_node_id = "yes"
    /\ Len(AllNodes(structure)) = MaxNodes
    /\ \E n \in NodeSet(structure) : n.type = "directory"
    /\ \E n \in NodeSet(structure) : n.type = "imports"

\* C5: the node_id of every node is its pre-order rank in the thinned, pruned
\* input: it depends on the input and the thinning setting alone, neither on
\* the summary, text or description options nor on any later stage
C5_NodeIdsFromThinnedShape ==
    (StageDone("ids") /\ opts.if_add_node_id = "yes") =>
        LET ns == AllNodes(structure)
            ref == AllNodes(ThinnedInput)
        IN  /\ Len(ns) = Len(ref)
            /\ \A i \in 1..Len(ns) :
                   /\ ns[i].title = ref[i].title
                   /\ "node_id" \in DOMAIN ns[i]
                   /\ ns[i].node_id = zfill4(i - 1)

\* a returned run with summaries in which thinning removed a node that is
\* not the last one in pre-order
C5_Witness ==
    /\ outcome = "returned" /\ opts.if_add_node_id = "yes"
    /\ opts.if_thinning /\ opts.if_add_node_summary = "yes"
    /\ LET before == AllNodes(input)
           after  == AllNodes(structure)
       IN  /\ Len(after) < Len(before)
           /\ after[Len(after)].title = before[Len(before)].title

C7_Claimed ==
    outcome = "returned" =>
        \A n \in NodeSet(result[1].structure[1]) :
            /\ HasChildren(n) => "summary" \notin DOMAIN n
            /\ ~HasChildren(n) => "prefix_summary" \notin DOMAIN n

\* C8: once a summarization request has failed, no node of the tree carries a
\* summary or prefix_summary
C8_FailedBatchAttachesNothing ==
    (\E i \in 1..Len(tasks) : tasks[i].status = "failed") =>
        \A n \in NodeSet(structure) :
            "summary" \notin DOMAIN n /\ "prefix_summary" \notin DOMAIN n

\* the batch has raised after one request failed and another got its answer
C8_Witness ==
    /\ outcome = "raised"
    /\ \E i \in 1..Len(tasks) : tasks[i].status = "failed"
    /\ \E i \in 1..Len(tasks) :
           /\ tasks[i].status = "done"
           /\ tasks[i].summary = model_response(NodeAt(structure, tasks[i].path))

\* C9 as claimed: when a summarization request has failed and the run has
\* ended, the caller holds the tree of the earlier stages
C9_Claimed ==
    outcome = "raised" =>
        /\ result # <<>>
        /\ \A i \in 1..Len(AllNodes(ThinnedInput)) :
               AllNodes(result[1].structure[1])[i].title = AllNodes(ThinnedInput)[i].title

\* the children of a node, every one thinned
ThinnedChildren(node) ==
    [i \in 1..Len(Get(node, "nodes", <<>>)) |->
        thin_node(node.nodes[i], opts.min_token_threshold)]

\* the tokens of the text of a node and of the texts of the nodes below it
TokensAtAndBelow(node) ==
    SumSeq([i \in 1..Len(AllNodes(node)) |->
               count_tokens(Get(AllNodes(node)[i], "text", <<>>))])

\* the tokens thinning weighs a node by: its own text and everything below
\* it once its children are thinned
ThinningTokens(node) ==
    count_tokens(Get(node, "text", <<>>))
        + SumSeq([i \in 1..Len(ThinnedChildren(node)) |->
                     TokensAtAndBelow(ThinnedChildren(node)[i])])

\* C19: thinning takes the children of a node away if and only if the node
\* had children, its kind is class, function or method, and the tokens
\* of its own text plus those of everything below it, counted once its
\* children were thinned, are strictly below the threshold; a node that has
\* not lost them has every child, thinned
C19_ThinnedIffSmallCodeNode ==
    (JustAfter("thin") /\ opts.if_thinning) =>
        \A p \in SeqRange(structure_to_list(input, <<>>)) :
            LET before == NodeAt(input, p)
                \* what thinning made of the node: in the tree, or merged
                \* into a node above it afterwards
                after  == IF p \in SeqRange(structure_to_list(structure, <<>>))
                          THEN NodeAt(structure, p)
                          ELSE thin_node(before, opts.min_token_threshold)
                lost   == HasChildren(before) /\ ~HasChildren(after)
            IN  /\ lost <=> /\ HasChildren(before)
                            /\ before.type \in {"class", "function", "method"}
                            /\ ThinningTokens(before) < opts.min_token_threshold
                /\ (HasChildren(before) /\ ~lost) => after.nodes = ThinnedChildren(before)
                /\ before.type \in {"directory", "file", "imports", "object"} =>
                       Len(Get(after, "nodes", <<>>)) = Len(Get(before, "nodes", <<>>))

\* a thinned tree with a class that lost its children below a file that kept
\* its own
C19_Witness ==
    /\ JustAfter("thin") /\ opts.if_thinning
    /\ HasChildren(structure)
    /\ \E p \in SeqRange(structure_to_list(structure, <<>>)) :
          /\ NodeAt(input, p).type = "class"
          /\ HasChildren(NodeAt(input, p)) /\ ~HasChildren(NodeAt(structure, p))

\* a class whose tokens are exactly the threshold keeps its children
C19_AtThresholdCase ==
    /\ JustAfter("thin") /\ opts.if_thinning
    /\ \E p \in SeqRange(structure_to_list(structure, <<>>)) :
          /\ NodeAt(input, p).type = "class"
          /\ HasChildren(NodeAt(structure, p))
          /\ ThinningTokens(NodeAt(input, p)) = opts.min_token_threshold

\* a small file, a small imports node and a small object keep their children
C19_OtherKindsCase ==
    /\ JustAfter("thin") /\ opts.if_thinning
    /\ \E p \in SeqRange(structure_to_list(structure, <<>>)) :
          /\ NodeAt(input, p).type \in {"imports", "object"}
          /\ HasChildren(NodeAt(structure, p))
          /\ ThinningTokens(NodeAt(input, p)) < opts.min_token_threshold

\* the paths of the imports nodes of the returned tree
ReturnedImports ==
    LET out == result[1].structure[1]
    IN  {p \in SeqRange(structure_to_list(out, <<>>)) : Get(NodeAt(out, p), "type", "") = "imports"}

C18_SummariesAndThinningCase ==
    /\ outcome = "returned" /\ ReturnedImports # {}
    /\ opts.if_add_node_summary = "yes" \/ opts.if_thinning

-----------------------------------------------------------------------------
(* page_index_kotlin.py: the heuristic scanner                               *)
(*                                                                           *)
(* A line is a sequence of tokens (the white space between them left out):   *)
(* keywords, "id" for a name or any other word, the braces, "//" and the     *)
(* two quote characters.                                                     *)

\* the lines a Kotlin file is made of
LineSet ==
    { <<>>,
      <<"import", "id">>,
      <<"//", "id">>,
      <<"package", "id">>,
      <<"id">>,
      <<"class", "id", "{">>,
      <<"class", "id">>,
      <<"fun", "id", "{">>,
      <<"fun", "id", "{", "}">>,
      <<"{">>,
      <<"}">> }

Visibility == {"private", "public", "protected", "internal"}
ClassModifiers == {"open", "data", "sealed", "annotation", "inner"}
ClassKeywords == {"class", "interface", "object", "enum class"}
FunModifiers == Visibility \cup {"override", "suspend", "abstract", "open", "inline"}

Count(toks, x) == Cardinality({i \in 1..Len(toks) : toks[i] = x})

\* re.sub(r'//.*', '', line)
RECURSIVE remove_comment(_)
remove_comment(toks) ==
    IF toks = <<>> \/ toks[1] = "//" THEN <<>>
    ELSE <<toks[1]>> \o remove_comment(Tail(toks))

\* the tokens after the first q, that q included; <<>> if there is none
RECURSIVE FromFirst(_, _)
FromFirst(toks, q) ==
    IF toks = <<>> \/ toks[1] = q THEN toks ELSE FromFirst(Tail(toks), q)

\* re.sub(q + '.*?' + q, q + q, line): every quoted stretch loses its content
RECURSIVE remove_quoted(_, _)
remove_quoted(toks, q) ==
    IF toks = <<>> THEN <<>>
    ELSE IF toks[1] # q THEN <<toks[1]>> \o remove_quoted(Tail(toks), q)
    ELSE LET closing == FromFirst(Tail(toks), q)
         IN  IF closing = <<>> THEN toks
             ELSE <<q, q>> \o remove_quoted(Tail(closing), q)

count_braces(line) ==
    LET cleaned == remove_quoted(remove_quoted(remove_comment(line), "\""), "'")
    IN  Count(cleaned, "{") - Count(cleaned, "}")

\* import_pattern.match(stripped_line): ^\s*import\s+
is_import(line) == Len(line) >= 2 /\ line[1] = "import"

\* stripped_line and not startswith('//') and not startswith('package')
ends_import_run(line) == line # <<>> /\ line[1] # "//" /\ line[1] # "package"

DropOne(toks, set) == IF toks # <<>> /\ toks[1] \in set THEN Tail(toks) ELSE toks

\* class_pattern.search(line): the keyword matched, "" for no match
match_class(line) ==
    LET rest == DropOne(DropOne(line, Visibility), ClassModifiers)
    IN  IF Len(rest) >= 2 /\ rest[1] \in ClassKeywords /\ rest[2] = "id"
        THEN rest[1] ELSE ""

\* fun_pattern.search(line)
match_fun(line) ==
    LET rest == DropOne(line, FunModifiers)
    IN  Len(rest) >= 2 /\ rest[1] = "fun" /\ rest[2] = "id"

class_node_type(kind_type) ==
    CASE kind_type = "interface"  -> "interface"
      [] kind_type = "enum class" -> "enum"
      [] kind_type = "object"     -> "object"
      [] OTHER                    -> "class"

\* a slip: the two line numbers of the imports node change places
imports_node_swapped(start, end) ==
    [title |-> "Imports", type |-> "imports", start_line |-> end, end_line |-> start,
     parent |-> 0]

\* the imports node both flushes append to the root list
imports_node(start, end) ==
    [title |-> "Imports", type |-> "imports", start_line |-> start, end_line |-> end,
     parent |-> 0]

\* a slip: a blank line ends the run like any other line
flush_on_any_line(line, start) == start # 0

\* the pending run is flushed by this line
flushes(line, start) == ends_import_run(line) /\ start # 0

\* a slip: a frame is popped only when the balance falls below its baseline
RECURSIVE close_scopes_below_only(_, _, _, _)
close_scopes_below_only(stk, ns, balance, line_num) ==
    IF stk # <<>> /\ balance < stk[Len(stk)].start_balance
    THEN close_scopes_below_only(SubSeq(stk, 1, Len(stk) - 1),
                                 [ns EXCEPT ![stk[Len(stk)].node].end_line = line_num],
                                 balance, line_num)
    ELSE [stack |-> stk, nodes |-> ns]

\* the while loop: frames whose start_balance the balance has fallen to are
\* popped and their nodes get end_line = line_num
RECURSIVE close_scopes(_, _, _, _)
close_scopes(stk, ns, balance, line_num) ==
    IF stk # <<>> /\ balance <= stk[Len(stk)].start_balance
    THEN close_scopes(SubSeq(stk, 1, Len(stk) - 1),
                      [ns EXCEPT ![stk[Len(stk)].node].end_line = line_num],
                      balance, line_num)
    ELSE [stack |-> stk, nodes |-> ns]

\* a slip: a function counts among the kinds that hold methods
KotlinClassKinds_with_function == {"class", "interface", "object", "enum", "function"}

\* the kinds whose functions are methods
KotlinClassKinds == {"class", "interface", "object", "enum"}

\* new_node, as a sequence: <<>> when the line declares nothing
new_node(line, line_num, stk, ns) ==
    LET parent == IF stk # <<>> THEN stk[Len(stk)].node ELSE 0
    IN  IF match_class(line) # ""
        THEN <<[title |-> "id", type |-> class_node_type(match_class(line)),
                start_line |-> line_num, end_line |-> line_num, parent |-> parent]>>
        ELSE IF match_fun(line)
        THEN <<[title |-> "id()",
                type |-> IF parent # 0 /\ ns[parent].type \in KotlinClassKinds
                         THEN "method" ELSE "function",
                start_line |-> line_num, end_line |-> line_num, parent |-> parent]>>
        ELSE <<>>

\* a slip: the balance after the line is taken as the baseline
start_balance_unadjusted(line, balance) == balance

\* start_balance = current_brace_balance - (1 if '{' in line else 0)
start_balance_of(line, balance) == balance - (IF Count(line, "{") > 0 THEN 1 ELSE 0)

\* a slip: a new node is put at the head of its list
RECURSIVE nested_nodes_newest_first(_, _)
nested_nodes_newest_first(ns, parent) ==
    LET idx == SelectSeq([j \in 1..Len(ns) |-> j], LAMBDA j : ns[j].parent = parent)
    IN  [c \in 1..Len(idx) |->
            LET r == idx[Len(idx) + 1 - c]
            IN  [title |-> ns[r].title, type |-> ns[r].type,
                 start_line |-> ns[r].start_line, end_line |-> ns[r].end_line,
                 nodes |-> nested_nodes_newest_first(ns, r)]]

\* the node dicts of the list held by `parent`, children nested, in list order
RECURSIVE nested_nodes(_, _)
nested_nodes(ns, parent) ==
    LET idx == SelectSeq([j \in 1..Len(ns) |-> j], LAMBDA j : ns[j].parent = parent)
    IN  [c \in 1..Len(idx) |->
            [title |-> ns[idx[c]].title, type |-> ns[idx[c]].type,
             start_line |-> ns[idx[c]].start_line, end_line |-> ns[idx[c]].end_line,
             nodes |-> nested_nodes(ns, idx[c])]]

\* lines[start:end] of a Python list: the bounds are clamped to the list
Slice(all_lines, start, end) ==
    IF start >= Min(end, Len(all_lines)) THEN <<>>
    ELSE SubSeq(all_lines, start + 1, Min(end, Len(all_lines)))

\* add_text_to_node on every node of the list
RECURSIVE extract_node_text_content(_, _)
extract_node_text_content(ns, all_lines) ==
    [c \in 1..Len(ns) |->
        [text |-> Slice(all_lines, ns[c].start_line - 1, ns[c].end_line)]
        @@ [ns[c] EXCEPT !.nodes = extract_node_text_content(ns[c].nodes, all_lines)]]

\* the file node every build_*_file_tree returns
make_file_node(all_lines, forest) ==
    [title |-> "file", type |-> "file", path |-> "p", start_line |-> 1,
     end_line |-> Len(all_lines), text |-> all_lines, nodes |-> forest]

\* the scanner's variables before the first line
kt_start ==
    [lines |-> <<>>, current_brace_balance |-> 0, stack |-> <<>>, nodes |-> <<>>,
     import_start_line |-> 0, import_end_line |-> 0]

\* one iteration of `for i, line in enumerate(lines)` on the scanner's
\* variables st
kt_step(st, line) ==
    LET line_num == Len(st.lines) + 1
    IN  IF is_import(line)
        THEN [st EXCEPT !.lines = Append(@, line),
                        !.import_start_line = IF @ = 0 THEN line_num ELSE @,
                        !.import_end_line = line_num]
        ELSE LET flush    == flushes(line, st.import_start_line)
                 flushed  == IF flush
                             THEN Append(st.nodes, imports_node(st.import_start_line,
                                                                st.import_end_line))
                             ELSE st.nodes
                 balance  == st.current_brace_balance + count_braces(line)
                 closed   == close_scopes(st.stack, flushed, balance, line_num)
                 created  == new_node(line, line_num, closed.stack, closed.nodes)
             IN  [lines |-> Append(st.lines, line),
                  import_start_line |-> IF flush THEN 0 ELSE st.import_start_line,
                  import_end_line |-> IF flush THEN 0 ELSE st.import_end_line,
                  current_brace_balance |-> balance,
                  nodes |-> closed.nodes \o created,
                  stack |-> IF created # <<>>
                            THEN Append(closed.stack,
                                        [node |-> Len(closed.nodes) + 1,
                                         start_balance |->
                                             start_balance_of(line, balance)])
                            ELSE closed.stack]

\* the flush after the loop
kt_end(st) ==
    IF st.import_start_line # 0
    THEN Append(st.nodes, imports_node(st.import_start_line, st.import_end_line))
    ELSE st.nodes

\* extract_nodes_from_kotlin on a whole text: the store of its nodes
RECURSIVE kt_scan(_, _)
kt_scan(st, rest) ==
    IF rest = <<>> THEN kt_end(st) ELSE kt_scan(kt_step(st, rest[1]), Tail(rest))

\* the scanner's variables as the state holds them
kt_state ==
    [lines |-> lines, current_brace_balance |-> current_brace_balance,
     stack |-> stack, nodes |-> nodes,
     import_start_line |-> import_start_line, import_end_line |-> import_end_line]

\* the loop reads one more line, a line of `set`
KtScanLineFrom(set) ==
    /\ lang = "kotlin" /\ file_node = <<>>
    /\ Len(lines) < MaxLines
    /\ \E line \in set :
        LET next == kt_step(kt_state, line)
        IN  /\ lines' = next.lines
            /\ current_brace_balance' = next.current_brace_balance
            /\ stack' = next.stack
            /\ nodes' = next.nodes
            /\ import_start_line' = next.import_start_line
            /\ import_end_line' = next.import_end_line
    /\ UNCHANGED <<lang, tree, file_node, pipeVars, buildVars>>

KtScanLine == KtScanLineFrom(LineSet)

\* the end of the loop: the trailing flush, then the rest of build_kotlin_file_tree
KtFinish ==
    /\ lang = "kotlin" /\ file_node = <<>>
    /\ Len(lines) >= 1
    /\ nodes' = kt_end(kt_state)
    /\ file_node' = <<make_file_node(lines,
                         extract_node_text_content(nested_nodes(nodes', 0), lines))>>
    /\ UNCHANGED <<lang, tree, lines, current_brace_balance, stack,
                   import_start_line, import_end_line, pipeVars, buildVars>>

-----------------------------------------------------------------------------
(* What the parsers hand over (ast, javalang, tree-sitter)                   *)
(*                                                                           *)
(* A syntax node is [kind, name, lineno, end_lineno, positioned, body].      *)
(* The parsers report a construct on the lines it occupies: a node starts on *)
(* a line of its own, its body follows, and a braced construct with a body   *)
(* ends on the line of its closing brace.                                    *)

SyntaxRoot(l) ==
    CASE l = "python" -> "Module"
      [] l = "java"   -> "CompilationUnit"
      [] OTHER        -> "translation_unit"

SyntaxChildKinds(l, k) ==
    CASE l = "python" /\ k = "Module" ->
            {"Import", "ImportFrom", "ClassDef", "FunctionDef", "AsyncFunctionDef",
             "If", "Expr"}
      [] l = "python" /\ k = "ClassDef" -> {"FunctionDef", "ClassDef", "Expr"}
      [] l = "python" /\ k = "FunctionDef" -> {"FunctionDef", "Expr"}
      [] l = "python" /\ k = "AsyncFunctionDef" -> {"Expr"}
      [] l = "python" /\ k = "If" -> {"FunctionDef", "Expr"}
      [] l = "java" /\ k = "CompilationUnit" ->
            {"Import", "ClassDeclaration", "InterfaceDeclaration", "EnumDeclaration"}
      [] l = "java" /\ k = "ClassDeclaration" ->
            {"MethodDeclaration", "ConstructorDeclaration", "FieldDeclaration",
             "ClassDeclaration"}
      [] l = "java" /\ k = "InterfaceDeclaration" -> {"MethodDeclaration"}
      [] l = "java" /\ k \in {"MethodDeclaration", "ConstructorDeclaration"} ->
            {"Statement"}
      [] l \in {"c", "cpp"} /\ k = "translation_unit" ->
            IF l = "c"
            THEN {"function_definition", "struct_specifier", "declaration"}
            ELSE {"function_definition", "class_specifier", "struct_specifier",
                  "namespace_definition", "template_declaration", "declaration"}
      [] l = "cpp" /\ k = "namespace_definition" -> {"declaration_list"}
      [] l = "cpp" /\ k = "declaration_list" ->
            {"function_definition", "class_specifier", "namespace_definition",
             "template_declaration"}
      [] l = "cpp" /\ k = "template_declaration" ->
            {"function_definition", "class_specifier"}
      [] l = "cpp" /\ k = "class_specifier" -> {"field_declaration_list"}
      [] l \in {"c", "cpp"} /\ k = "struct_specifier" -> {"field_declaration_list"}
      [] l = "cpp" /\ k = "field_declaration_list" ->
            {"function_definition", "field_declaration"}
      [] l = "c" /\ k = "field_declaration_list" -> {"field_declaration"}
      [] l \in {"c", "cpp"} /\ k = "function_definition" -> {"compound_statement"}
      [] OTHER -> {}

\* javalang leaves the position of some nodes unset
MayLackPosition(l, k) ==
    l = "java" /\ k \in {"Import", "MethodDeclaration", "Statement"}

\* the constructs that end with a closing brace on a line of its own
Braced ==
    {"ClassDeclaration", "InterfaceDeclaration", "MethodDeclaration",
     "ConstructorDeclaration", "declaration_list", "field_declaration_list",
     "compound_statement"}

\* Java: the import declarations precede the type declarations, and javalang
\* treats all import declarations alike
SyntaxWellFormed(t) ==
    /\ \A i, j \in 2..Len(t) :
          t[i].kind = "Import" /\ t[j].parent = 1 /\ t[j].kind # "Import" => i < j
    /\ \A i, j \in 2..Len(t) :
          t[i].kind = "Import" /\ t[j].kind = "Import" => t[i].positioned = t[j].positioned

\* the lines are told apart by their number
SourceLines(n) == [j \in 1..n |-> <<"line", ToString(j)>>]

\* node i laid out from `line` on: [node, next], next the first line after it
RECURSIVE Layout(_, _, _)
RECURSIVE LayoutSeq(_, _, _)
LayoutSeq(t, kids, line) ==
    IF kids = <<>> THEN [body |-> <<>>, next |-> line]
    ELSE LET first == Layout(t, kids[1], line)
             rest  == LayoutSeq(t, Tail(kids), first.next)
         IN  [body |-> <<first.node>> \o rest.body, next |-> rest.next]

Layout(t, i, line) ==
    LET kids   == SelectSeq([j \in 1..Len(t) |-> j], LAMBDA j : t[j].parent = i)
        inner  == LayoutSeq(t, kids, IF i = 1 THEN line ELSE line + 1)
        closes == kids # <<>> /\ t[i].kind \in Braced
        \* Python: a from-import with its names in parentheses, on two lines
        last   == IF closes THEN inner.next
                  ELSE IF t[i].kind = "ImportFrom" THEN line + 1
                  ELSE Max(line, inner.next - 1)
    IN  [node |-> [kind |-> t[i].kind, name |-> Names[i], lineno |-> line,
                   end_lineno |-> last, positioned |-> t[i].positioned,
                   body |-> inner.body],
         next |-> last + 1]

\* the parser, or the lexer under it, gave up on the text with exception exc
ParseFailure(exc) ==
    [kind |-> "error", name |-> exc, lineno |-> 0, end_lineno |-> 0,
     positioned |-> FALSE, body |-> <<>>]

\* the exceptions the parser of language l can end with: ast.parse also ends
\* with RecursionError or MemoryError on deeply nested text; javalang's
\* tokenizer has a LexerError of its own; the Tree-sitter parser takes any
\* text, but setting it up may fail
FailureKinds(l) ==
    CASE l = "python" -> {"SyntaxError", "RecursionError", "MemoryError"}
      [] l = "java"   -> {"JavaSyntaxError", "IndexError", "TypeError", "LexerError"}
      [] OTHER        -> {"NameError", "ValueError"}

\* a parsed file: the tree and the lines of code_content.split('\n'), the text
\* ending with a line break
ParsedFile(t) ==
    LET laid == Layout(t, 1, 1)
    IN  [tree |-> laid.node, lines |-> SourceLines(laid.node.end_lineno + 1)]

\* a statement of a Python text as ast.parse gives it
Stmt(kind, name, lineno, end_lineno, body) ==
    [kind |-> kind, name |-> name, lineno |-> lineno, end_lineno |-> end_lineno,
     positioned |-> TRUE, body |-> body]

\* ast.parse of tests/fixtures/sample_python.py
sample_python ==
    Stmt("Module", "", 1, 26, <<
        Stmt("Import", "import functools", 1, 1, <<>>),
        [args |-> <<[arg |-> "func", annotation |-> ""]>>]
        @@ Stmt("FunctionDef", "my_decorator", 3, 9, <<
            [decorator_list |-> <<[kind |-> "Call", unparsed |-> "functools.wraps(func)"]>>,
             vararg |-> <<[arg |-> "args", annotation |-> ""]>>,
             kwarg |-> <<[arg |-> "kwargs", annotation |-> ""]>>]
            @@ Stmt("FunctionDef", "wrapper", 5, 8, <<
                Stmt("Expr", "", 6, 6, <<>>),
                Stmt("Expr", "", 7, 7, <<>>),
                Stmt("Expr", "", 8, 8, <<>>) >>),
            Stmt("Return", "", 9, 9, <<>>) >>),
        [decorator_list |-> <<[kind |-> "Name", unparsed |-> "my_decorator"]>>]
        @@ Stmt("FunctionDef", "say_whee", 12, 14, <<
            [constant |-> "Docstring for say_whee."] @@ Stmt("Expr", "", 13, 13, <<>>),
            Stmt("Expr", "", 14, 14, <<>>) >>),
        Stmt("ClassDef", "Dog", 16, 23, <<
            [constant |-> "A class representing a dog."] @@ Stmt("Expr", "", 17, 17, <<>>),
            [args |-> <<[arg |-> "self", annotation |-> ""],
                        [arg |-> "name", annotation |-> ""]>>]
            @@ Stmt("FunctionDef", "__init__", 19, 20, <<
                Stmt("Assign", "", 20, 20, <<>>) >>),
            [args |-> <<[arg |-> "self", annotation |-> ""]>>]
            @@ Stmt("FunctionDef", "bark", 22, 23, <<
                Stmt("Return", "", 23, 23, <<>>) >>) >>),
        [args |-> <<[arg |-> "name", annotation |-> "str"]>>, returns |-> "str"]
        @@ Stmt("AsyncFunctionDef", "async_hello", 25, 26, <<
            Stmt("Return", "", 26, 26, <<>>) >>) >>)

\* the parser's results for the texts of language l: the failure, the fixture, and every
\* syntax tree of at most MaxSyntaxNodes nodes, grown in pre-order from t (a
\* sequence of [kind, parent, positioned]) by one node under its right-most path
RECURSIVE ParserGives(_, _, _, _)
ParserGives(l, t, ast_tree, all_lines) ==
    \/ /\ Len(t) = 1
       /\ \E exc \in FailureKinds(l) : ast_tree = ParseFailure(exc)
       /\ all_lines = SourceLines(2)
    \/ /\ Len(t) = 1 /\ l = "python"
       /\ ast_tree = sample_python /\ all_lines = SourceLines(sample_python.end_lineno)
    \/ /\ SyntaxWellFormed(t)
       /\ ast_tree = ParsedFile(t).tree /\ all_lines = ParsedFile(t).lines
    \/ /\ Len(t) < MaxSyntaxNodes
       /\ \E p \in RightPath(t, Len(t)) : \E k \in SyntaxChildKinds(l, t[p].kind) :
          \E b \in IF MayLackPosition(l, k) THEN BOOLEAN ELSE {TRUE} :
             ParserGives(l, Append(t, [kind |-> k, parent |-> p, positioned |-> b]),
                         ast_tree, all_lines)

-----------------------------------------------------------------------------
(* page_index_python.py                                                      *)

\* ', '.join(parts)
RECURSIVE Join(_)
Join(parts) ==
    IF parts = <<>> THEN ""
    ELSE IF Len(parts) = 1 THEN parts[1]
    ELSE parts[1] \o ", " \o Join(Tail(parts))

\* arg.arg, followed by its annotation when it has one ("" is None)
arg_str(arg) ==
    IF arg.annotation # "" THEN arg.arg \o ": " \o arg.annotation ELSE arg.arg

\* extract_signature, for parameter lists without positional-only and
\* keyword-only parameters and without defaults
extract_signature(node) ==
    LET args   == Get(node, "args", <<>>)
        vararg == Get(node, "vararg", <<>>)
        kwarg  == Get(node, "kwarg", <<>>)
        parts  == [i \in 1..Len(args) |-> arg_str(args[i])]
                  \o [i \in 1..Len(vararg) |-> "*" \o arg_str(vararg[i])]
                  \o [i \in 1..Len(kwarg) |-> "**" \o arg_str(kwarg[i])]
        func_keyword == IF node.kind = "AsyncFunctionDef" THEN "async def" ELSE "def"
        signature == func_keyword \o " " \o node.name \o "(" \o Join(parts) \o ")"
    IN  IF Get(node, "returns", "") # ""
        THEN signature \o " -> " \o node.returns
        ELSE signature

\* extract_docstring: <<>> is None; a string constant is an Expr with a `constant`
extract_docstring(node) ==
    IF node.body # <<>> /\ node.body[1].kind = "Expr" /\ "constant" \in DOMAIN node.body[1]
    THEN <<node.body[1].constant>>
    ELSE <<>>

\* extract_decorators: a name, an attribute or a call, unparsed; anything else is left out
extract_decorators(node) ==
    LET decorator_list == Get(node, "decorator_list", <<>>)
        kept == SelectSeq(decorator_list,
                          LAMBDA d : d.kind \in {"Name", "Attribute", "Call"})
    IN  [i \in 1..Len(kept) |-> "@" \o kept[i].unparsed]

\* process_node, as a sequence: <<>> for None
RECURSIVE py_process_node(_, _)
py_process_node(ast_node, parent_type) ==
    IF ast_node.kind = "ClassDef"
    THEN <<[title |-> ast_node.name, type |-> "class",
            start_line |-> ast_node.lineno, end_line |-> ast_node.end_lineno,
            docstring |-> extract_docstring(ast_node),
            decorators |-> extract_decorators(ast_node),
            nodes |-> Flatten([c \in 1..Len(ast_node.body) |->
                                  py_process_node(ast_node.body[c], "class")])]>>
    ELSE IF ast_node.kind \in {"FunctionDef", "AsyncFunctionDef"}
    THEN <<[title |-> ast_node.name \o "()",
            type |-> IF parent_type = "class" THEN "method" ELSE "function",
            start_line |-> ast_node.lineno, end_line |-> ast_node.end_lineno,
            signature |-> extract_signature(ast_node),
            docstring |-> extract_docstring(ast_node),
            decorators |-> extract_decorators(ast_node),
            nodes |-> Flatten([c \in 1..Len(ast_node.body) |->
                                  py_process_node(ast_node.body[c], "function")])]>>
    ELSE <<>>

\* a slip: the imports node ends where its last statement starts
py_import_node_ends_at_start(current_imports) ==
    [title |-> "Imports", type |-> "imports",
     start_line |-> current_imports[1].lineno,
     end_line |-> current_imports[Len(current_imports)].lineno,
     nodes |-> [c \in 1..Len(current_imports) |->
                   [title |-> current_imports[c].name, type |-> "import",
                    start_line |-> current_imports[c].lineno,
                    end_line |-> current_imports[c].end_lineno,
                    nodes |-> <<>>]]]

\* the imports node made of a batch of import statements
py_import_node(current_imports) ==
    [title |-> "Imports", type |-> "imports",
     start_line |-> current_imports[1].lineno,
     end_line |-> current_imports[Len(current_imports)].end_lineno,
     nodes |-> [c \in 1..Len(current_imports) |->
                   [title |-> current_imports[c].name, type |-> "import",
                    start_line |-> current_imports[c].lineno,
                    end_line |-> current_imports[c].end_lineno,
                    nodes |-> <<>>]]]

\* a slip: the collected import statements are dropped
py_flush_nothing(current_imports) == <<>>

py_flush(current_imports) ==
    IF current_imports # <<>> THEN <<py_import_node(current_imports)>> ELSE <<>>

\* the loop over tree.body and the trailing flush
RECURSIVE py_top_level(_, _, _)
py_top_level(body, current_imports, acc) ==
    IF body = <<>> THEN acc \o py_flush(current_imports)
    ELSE IF body[1].kind \in {"Import", "ImportFrom"}
    THEN py_top_level(Tail(body), Append(current_imports, body[1]), acc)
    ELSE py_top_level(Tail(body), <<>>,
                      acc \o py_flush(current_imports) \o py_process_node(body[1], "none"))

\* the exception that leaves extract_nodes_from_python, "" when it returns
python_raises(ast_tree) ==
    IF ast_tree.kind = "error" /\ ast_tree.name # "SyntaxError" THEN ast_tree.name ELSE ""

extract_nodes_from_python(ast_tree) ==
    IF ast_tree.kind = "error" THEN <<>>
    ELSE py_top_level(ast_tree.body, <<>>, <<>>)

-----------------------------------------------------------------------------
(* page_index_java.py                                                        *)

\* node.position.line if node.position else 1
get_line_range(node) == IF node.positioned THEN node.lineno ELSE 1

RECURSIVE MaxEndLine(_, _)
MaxEndLine(ns, least) ==
    IF ns = <<>> THEN least ELSE MaxEndLine(Tail(ns), Max(least, ns[1].end_line))

JavaTypeKinds == {"ClassDeclaration", "InterfaceDeclaration", "EnumDeclaration"}

java_node_type(kind) ==
    CASE kind = "InterfaceDeclaration" -> "interface"
      [] kind = "EnumDeclaration"      -> "enum"
      [] OTHER                         -> "class"

\* a slip: the line of the last statement is taken as it is
method_end_line_of_last_statement(ast_node) ==
    LET start_line == get_line_range(ast_node)
        last_stmt  == ast_node.body[Len(ast_node.body)]
    IN  IF ast_node.body # <<>>
        THEN IF last_stmt.positioned THEN last_stmt.lineno ELSE start_line
        ELSE start_line

\* the end line estimated from the last statement of the body
method_end_line(ast_node) ==
    LET start_line == get_line_range(ast_node)
        last_stmt  == ast_node.body[Len(ast_node.body)]
    IN  IF ast_node.body # <<>>
        THEN IF last_stmt.positioned THEN last_stmt.lineno + 1 ELSE start_line
        ELSE start_line

RECURSIVE java_process_node(_)
java_process_node(ast_node) ==
    IF ast_node.kind \in JavaTypeKinds
    THEN LET start_line == get_line_range(ast_node)
             children   == Flatten([c \in 1..Len(ast_node.body) |->
                                       java_process_node(ast_node.body[c])])
         IN  <<[title |-> ast_node.name, type |-> java_node_type(ast_node.kind),
                start_line |-> start_line,
                end_line |-> Max(start_line, MaxEndLine(children, start_line)),
                nodes |-> children]>>
    ELSE IF ast_node.kind \in {"MethodDeclaration", "ConstructorDeclaration"}
    THEN <<[title |-> ast_node.name \o "()", type |-> "method",
            start_line |-> get_line_range(ast_node),
            end_line |-> method_end_line(ast_node),
            nodes |-> <<>>]>>
    ELSE <<>>

\* the exception that leaves extract_nodes_from_java, "" when it returns
java_raises(ast_tree) ==
    IF /\ ast_tree.kind = "error"
       /\ ast_tree.name \notin {"JavaSyntaxError", "IndexError", "TypeError"}
    THEN ast_tree.name ELSE ""

extract_nodes_from_java(ast_tree) ==
    IF ast_tree.kind = "error" THEN <<>>
    ELSE LET imports == SelectSeq(ast_tree.body, LAMBDA d : d.kind = "Import")
             types   == SelectSeq(ast_tree.body, LAMBDA d : d.kind # "Import")
         IN  (IF imports # <<>>
              THEN <<[title |-> "Imports", type |-> "imports",
                      start_line |-> get_line_range(imports[1]),
                      end_line |-> get_line_range(imports[Len(imports)]),
                      nodes |-> <<>>]>>
              ELSE <<>>)
             \o Flatten([c \in 1..Len(types) |-> java_process_node(types[c])])

-----------------------------------------------------------------------------
(* page_index_cpp.py                                                         *)

\* a slip: the wrappers are given a kind of their own
mapped_type_wrappers_too(node_type, parent_type) ==
    CASE node_type \in {"function_definition", "template_function"} ->
            IF parent_type \in {"class", "struct"} THEN "method" ELSE "function"
      [] node_type = "class_specifier"      -> "class"
      [] node_type = "struct_specifier"     -> "struct"
      [] node_type = "namespace_definition" -> "namespace"
      [] node_type = "translation_unit"     -> ""
      [] OTHER                              -> "block"

\* the mapping of Tree-sitter kinds to the schema, "" for a kind that is not mapped
mapped_type(node_type, parent_type) ==
    CASE node_type \in {"function_definition", "template_function"} ->
            IF parent_type \in {"class", "struct"} THEN "method" ELSE "function"
      [] node_type = "class_specifier"      -> "class"
      [] node_type = "struct_specifier"     -> "struct"
      [] node_type = "namespace_definition" -> "namespace"
      [] OTHER                              -> ""

\* the title: the declarator or the name, with a fallback when there is none
cpp_title(ts_node, mapped) ==
    CASE mapped \in {"function", "method"} ->
            IF ts_node.name # "" THEN ts_node.name \o "()" ELSE mapped
      [] mapped \in {"class", "struct"} ->
            IF ts_node.name # "" THEN ts_node.name ELSE "<anonymous>"
      [] OTHER -> IF ts_node.name # "" THEN ts_node.name ELSE mapped

\* process_node: the list of the nodes a CST node gives rise to
RECURSIVE cpp_process_node(_, _)
cpp_process_node(ts_node, parent_type) ==
    LET mapped == mapped_type(ts_node.kind, parent_type)
    IN  IF mapped # ""
        THEN <<[title |-> cpp_title(ts_node, mapped), type |-> mapped,
                start_line |-> ts_node.lineno, end_line |-> ts_node.end_lineno,
                nodes |-> Flatten([c \in 1..Len(ts_node.body) |->
                                      cpp_process_node(ts_node.body[c], mapped)])]>>
        ELSE Flatten([c \in 1..Len(ts_node.body) |->
                         cpp_process_node(ts_node.body[c], parent_type)])

\* the subclasses of Exception among the exceptions at hand
Exceptions ==
    {"SyntaxError", "RecursionError", "MemoryError", "JavaSyntaxError", "IndexError",
     "TypeError", "LexerError", "NameError", "ValueError"}

\* the exception that leaves extract_nodes_from_cpp, "" when it returns
cpp_raises(ts_tree) ==
    IF ts_tree.kind = "error" /\ ts_tree.name \notin Exceptions THEN ts_tree.name ELSE ""

extract_nodes_from_cpp(ts_tree, l) ==
    IF l \notin {"c", "cpp"} \/ ts_tree.kind = "error" THEN <<>>
    ELSE cpp_process_node(ts_tree, "none")

-----------------------------------------------------------------------------
(* The extraction of one file                                                *)

Languages == {"python", "java", "c", "cpp", "kotlin"}

InitExtract ==
    /\ lang \in Languages
    /\ IF lang = "kotlin"
       THEN tree = <<>> /\ lines = <<>>
       ELSE ParserGives(lang, <<[kind |-> SyntaxRoot(lang), parent |-> 0,
                                  positioned |-> TRUE]>>, tree, lines)
    /\ current_brace_balance = 0
    /\ stack = <<>>
    /\ nodes = <<>>
    /\ import_start_line = 0
    /\ import_end_line = 0
    /\ file_node = <<>>
    /\ target = <<>> /\ built_files = <<>> /\ error = ""
    /\ input = <<>> /\ opts = <<>> /\ structure = <<>> /\ pc = 0
    /\ gathering = FALSE /\ tasks = <<>> /\ outcome = "none" /\ result = <<>>

\* build_python_file_tree, build_java_file_tree, build_cpp_file_tree: the
\* extractor's exception, if any, leaves the call; otherwise the file node is returned
BuildFileTree(l, raised, extracted) ==
    /\ lang = l /\ file_node = <<>> /\ outcome = "none"
    /\ IF raised # ""
       THEN outcome' = "raised" /\ UNCHANGED <<nodes, file_node>>
       ELSE /\ outcome' = "returned"
            /\ nodes' = extracted
            /\ file_node' = <<make_file_node(lines,
                                  extract_node_text_content(extracted, lines))>>
    /\ UNCHANGED <<lang, tree, lines, current_brace_balance, stack,
                   import_start_line, import_end_line,
                   opts, input, structure, pc, gathering, tasks, result, buildVars>>

BuildPython ==
    BuildFileTree("python", python_raises(tree), extract_nodes_from_python(tree))

BuildJava ==
    BuildFileTree("java", java_raises(tree), extract_nodes_from_java(tree))

BuildCpp ==
    \E l \in {"c", "cpp"} :
        BuildFileTree(l, cpp_raises(tree), extract_nodes_from_cpp(tree, l))

NextExtract == KtScanLine \/ KtFinish \/ BuildPython \/ BuildJava \/ BuildCpp

SpecExtract == InitExtract /\ [][NextExtract]_vars

-----------------------------------------------------------------------------
(* Properties of the extractors                                              *)

\* the nodes of a tree, its root included
RECURSIVE NodesIn(_)
NodesIn(node) ==
    {node} \cup UNION {NodesIn(node.nodes[c]) : c \in 1..Len(node.nodes)}

Extracted == file_node # <<>>

\* the rows of the scanner's store that are imports nodes
ImportsRows == {i \in 1..Len(nodes) : nodes[i].type = "imports"}

\* C1: every node an extractor emits, the imports nodes and the file node
\* included, has start_line <= end_line, whatever the input file (in the
\* scanner already while the node is open)
C1_StartNotAfterEnd ==
    /\ Extracted => \A n \in NodesIn(file_node[1]) : n.start_line <= n.end_line
    /\ lang = "kotlin" => \A i \in 1..Len(nodes) : nodes[i].start_line <= nodes[i].end_line

\* C1 happens: a scanned file with an imports node over several lines and a
\* declaration closed on a later line than it was opened
C1_Witness ==
    /\ Extracted /\ lang = "kotlin"
    /\ \E n \in NodesIn(file_node[1]) : n.type = "imports" /\ n.start_line < n.end_line
    /\ \E n \in NodesIn(file_node[1]) : n.type = "function" /\ n.start_line < n.end_line

\* C2 as claimed: for the Python, C/C++ and Kotlin extractors every child's
\* [start_line, end_line] lies within its parent's, for every input text
C2_Claimed ==
    Extracted /\ lang # "java" =>
        \A p \in NodesIn(file_node[1]) : \A c \in 1..Len(p.nodes) :
            /\ p.start_line <= p.nodes[c].start_line
            /\ p.nodes[c].end_line <= p.end_line

\* the lines of the scanned text, by what the scanner takes them for
ImportLine(i) == is_import(lines[i])

SpacerLine(i) == lines[i] = <<>> \/ lines[i][1] \in {"//", "package"}

OtherLine(i) == ~ImportLine(i) /\ ~SpacerLine(i)

\* import lines i <= j with nothing but imports and spacer lines between them
SameRun(i, j) == \A k \in i..j : ~OtherLine(k)

\* the maximal runs, as <<first import line, last import line>>
ImportRuns ==
    LET imports == {i \in 1..Len(lines) : ImportLine(i)}
        first(i) == CHOOSE a \in imports :
                        SameRun(a, i) /\ \A b \in imports : SameRun(b, i) => a <= b
        last(i)  == CHOOSE a \in imports :
                        SameRun(i, a) /\ \A b \in imports : SameRun(i, b) => b <= a
    IN  {<<first(i), last(i)>> : i \in imports}

Delta(i) == Count(lines[i], "{") - Count(lines[i], "}")

\* the brace depth after line i
RECURSIVE Depth(_)
Depth(i) == IF i = 0 THEN 0 ELSE Depth(i - 1) + Delta(i)

\* line i declares a class or a function
DeclLine(i) == ~ImportLine(i) /\ (match_class(lines[i]) # "" \/ match_fun(lines[i]))

DeclLines == {i \in 1..Len(lines) : DeclLine(i)}

\* at most one brace on a line, the braces balanced, every declaration with
\* its opening brace on its own line
WellBraced ==
    /\ \A i \in 1..Len(lines) : Count(lines[i], "{") + Count(lines[i], "}") <= 1
    /\ \A i \in 1..Len(lines) : Depth(i) >= 0
    /\ Depth(Len(lines)) = 0
    /\ \A i \in DeclLines : Count(lines[i], "{") = 1

\* the line of the brace that closes the one opened on line i
MatchLine(i) ==
    CHOOSE j \in (i + 1)..Len(lines) :
        Depth(j) = Depth(i) - 1 /\ \A k \in (i + 1)..(j - 1) : Depth(k) >= Depth(i)

\* the declarations whose braces enclose line i
Enclosing(i) == {p \in DeclLines : p < i /\ MatchLine(p) > i}

SetMax(S) == CHOOSE a \in S : \A b \in S : b <= a

\* the rows of the scanner's store that are declarations
DeclRows == {r \in 1..Len(nodes) : nodes[r].type # "imports"}

\* C11: on a text with at most one brace per line, balanced braces and every
\* declaration line holding its own opening brace, the scanner gives each
\* declaration one node from its declaration line to the line of its matching
\* closing brace, nested as the braces of the declarations are nested
C11_BracesGiveRangesAndNesting ==
    Extracted /\ lang = "kotlin" /\ WellBraced =>
        /\ Cardinality(DeclRows) = Cardinality(DeclLines)
        /\ \A i \in DeclLines : \E r \in DeclRows :
              /\ nodes[r].start_line = i
              /\ nodes[r].end_line = MatchLine(i)
              /\ IF Enclosing(i) = {} THEN nodes[r].parent = 0
                 ELSE /\ nodes[r].parent # 0
                      /\ nodes[nodes[r].parent].start_line = SetMax(Enclosing(i))

\* C11 happens: `class Foo {` / `}` gives one class node over lines 1..2
C11_Witness ==
    /\ Extracted /\ lang = "kotlin"
    /\ lines = << <<"class", "id", "{">>, <<"}">> >>
    /\ Len(file_node[1].nodes) = 1
    /\ file_node[1].nodes[1].type = "class"
    /\ file_node[1].nodes[1].start_line = 1 /\ file_node[1].nodes[1].end_line = 2
    /\ file_node[1].nodes[1].nodes = <<>>

\* C11 happens with nesting: a function inside a class, both closed
C11_NestedCase ==
    /\ Extracted /\ lang = "kotlin" /\ WellBraced
    /\ \E i \in DeclLines : Enclosing(i) # {}

\* the extractor has run on the fixture
FixtureExtracted == Extracted /\ lang = "python" /\ tree = sample_python

\* the four declarations of the fixture, as the list ns holds them
FixtureDeclarations(ns) ==
    /\ Len(ns) = 4
    /\ ns[1].type = "function" /\ ns[1].title = "my_decorator()"
    /\ Len(ns[1].nodes) = 1
    /\ ns[1].nodes[1].type = "function" /\ ns[1].nodes[1].title = "wrapper()"
    /\ ns[2].type = "function" /\ ns[2].title = "say_whee()"
    /\ ns[2].decorators = <<"@my_decorator">>
    /\ ns[2].nodes = <<>>
    /\ ns[3].type = "class" /\ ns[3].title = "Dog"
    /\ Len(ns[3].nodes) = 2
    /\ ns[3].nodes[1].type = "method" /\ ns[3].nodes[1].title = "__init__()"
    /\ ns[3].nodes[2].type = "method" /\ ns[3].nodes[2].title = "bark()"
    /\ ns[4].type = "function" /\ ns[4].title = "async_hello()"
    /\ ns[4].signature = "async def async_hello(name: str) -> str"
    /\ \A i \in 1..3 : ns[i].start_line < ns[i + 1].start_line

\* C12 as claimed: the extractor's root list for the fixture is exactly the
\* four declarations in source order
C12_Claimed == FixtureExtracted => FixtureDeclarations(file_node[1].nodes)

\* C12, amended: the root list for the fixture is the imports node of
\* `import functools` (line 1, one import child) followed by the four
\* declarations in source order
C12_FixtureNodes ==
    FixtureExtracted =>
        LET root == file_node[1].nodes
        IN  /\ Len(root) = 5
            /\ root[1].type = "imports"
            /\ root[1].start_line = 1 /\ root[1].end_line = 1
            /\ Len(root[1].nodes) = 1
            /\ root[1].nodes[1].type = "import"
            /\ root[1].nodes[1].title = "import functools"
            /\ FixtureDeclarations(Tail(root))

\* C12 happens: the fixture has been extracted and its last declaration is there
C12_Witness ==
    /\ FixtureExtracted
    /\ \E n \in NodesIn(file_node[1]) : n.title = "async_hello()"

\* the Tree-sitter kinds the schema has a kind for
MappedKinds ==
    {"function_definition", "template_function", "class_specifier",
     "struct_specifier", "namespace_definition"}

\* the CST nodes of a mapped kind below and at ts_node, each as <<its line,
\* the line of its nearest ancestor of a mapped kind>> (0: it has none)
RECURSIVE MappedInCst(_, _)
MappedInCst(ts_node, nearest) ==
    LET here == ts_node.kind \in MappedKinds
        next == IF here THEN ts_node.lineno ELSE nearest
    IN  (IF here THEN {<<ts_node.lineno, nearest>>} ELSE {})
        \cup UNION {MappedInCst(ts_node.body[c], next) : c \in 1..Len(ts_node.body)}

\* the nodes of a list and below, each as <<its start_line, its parent's>> (0: the root list)
RECURSIVE ParentPairs(_, _)
ParentPairs(ns, parent_line) ==
    UNION {{<<ns[c].start_line, parent_line>>}
           \cup ParentPairs(ns[c].nodes, ns[c].start_line) : c \in 1..Len(ns)}

\* how many nodes a list holds, those below included
RECURSIVE CountNodes(_)
CountNodes(ns) ==
    IF ns = <<>> THEN 0 ELSE 1 + CountNodes(ns[1].nodes) + CountNodes(Tail(ns))

CppExtracted == Extracted /\ lang \in {"c", "cpp"} /\ tree.kind # "error"

\* C13: the C/C++ extractor materializes exactly the CST nodes of a mapped
\* kind, each once; the parent of a materialized node is its nearest CST
\* ancestor of a mapped kind, whatever the number of wrappers between them
\* (the root list if there is none); siblings keep their source order
C13_NearestMappedAncestor ==
    CppExtracted =>
        /\ ParentPairs(file_node[1].nodes, 0) = MappedInCst(tree, 0)
        /\ CountNodes(file_node[1].nodes) = Cardinality(MappedInCst(tree, 0))
        /\ \A n \in NodesIn(file_node[1]) : \A c \in 1..(Len(n.nodes) - 1) :
              n.nodes[c].start_line < n.nodes[c + 1].start_line

\* C13 happens: a function inside a wrapper inside a namespace is a direct
\* child of the namespace node
C13_Witness ==
    /\ CppExtracted
    /\ tree.body # <<>> /\ tree.body[1].kind = "namespace_definition"
    /\ tree.body[1].body # <<>> /\ tree.body[1].body[1].kind = "declaration_list"
    /\ tree.body[1].body[1].body # <<>>
    /\ tree.body[1].body[1].body[1].kind = "function_definition"
    /\ file_node[1].nodes[1].type = "namespace"
    /\ file_node[1].nodes[1].nodes # <<>>
    /\ file_node[1].nodes[1].nodes[1].type = "function"
    /\ file_node[1].nodes[1].nodes[1].start_line = tree.body[1].body[1].body[1].lineno

\* C13 happens through two wrappers: namespace, declaration list, template, function
C13_TwoWrappers ==
    /\ CppExtracted
    /\ \E p \in MappedInCst(tree, 0) : p[2] # 0 /\ p[1] - p[2] = 3

\* the parser failed on the file
ParseFailed == lang \in {"python", "java", "c", "cpp"} /\ tree.kind = "error"

\* C14 as claimed: whatever the parser or lexer raised on a file, the file's
\* build returns a file node with an empty node list and the raw text, and
\* no error leaves it
C14_Claimed ==
    ParseFailed =>
        /\ outcome # "raised"
        /\ Extracted => file_node[1].nodes = <<>> /\ file_node[1].text = lines

\* the failures the extractors do catch end as the claim says
C14_CaughtFailure ==
    /\ ParseFailed /\ Extracted
    /\ file_node[1].nodes = <<>> /\ file_node[1].text = lines

-----------------------------------------------------------------------------
(* page_index_code.py: from the path to the structure                        *)
(*                                                                           *)
(* A file-system entry is [name, kind, ext, state, children]: a directory    *)
(* ("ok", or "denied" when it cannot be listed) or a file ("ok",             *)
(* "unreadable" when it cannot be opened or decoded, "raises" when its       *)
(* parser ends with an exception the extractor does not catch).  The name   *)
(* is the rank of the entry's name in the sort order; skipped says that the *)
(* name starts with a dot or is one of the names the traversal passes over. *)

SupportedExtensions == {".py", ".java", ".kt", ".c", ".h", ".cpp", ".hpp", ".cc", ".cxx"}

\* path.endswith((...))
is_supported(entry) == entry.ext \in SupportedExtensions

\* build_file_tree and the build_*_file_tree it calls: [exc, node], node <<>> for None
build_file_tree(entry) ==
    IF ~is_supported(entry) THEN [exc |-> "", node |-> <<>>]
    ELSE IF entry.state = "unreadable" THEN [exc |-> "", node |-> <<>>]
    ELSE IF entry.state = "raises" THEN [exc |-> "RecursionError", node |-> <<>>]
    ELSE [exc |-> "",
          node |-> <<[title |-> Names[entry.name], type |-> "file", path |-> entry.name,
                      start_line |-> 1, end_line |-> 1, text |-> <<"x">>,
                      nodes |-> <<>>]>>]

RECURSIVE has_code_content(_)
has_code_content(node) ==
    \/ node.type = "file"
    \/ \E c \in 1..Len(node.nodes) : has_code_content(node.nodes[c])

\* a slip: every subdirectory is given a place
keeps_every_subdir(node) == TRUE

\* if subdir_node and has_code_content(subdir_node)
keeps_subdir(node) == has_code_content(node)

\* sorted(os.listdir(dir_path)): by name
RECURSIVE sorted(_)
sorted(items) ==
    IF items = <<>> THEN <<>>
    ELSE LET least == CHOOSE i \in 1..Len(items) :
                          \A j \in 1..Len(items) : items[i].name <= items[j].name
         IN  <<items[least]>>
             \o sorted(SubSeq(items, 1, least - 1) \o SubSeq(items, least + 1, Len(items)))

\* a slip: what build_file_tree returned is appended even when it is None
append_file_node_or_none(node_list, built) ==
    IF built = <<>>
    THEN Append(node_list, [title |-> "None", type |-> "none", nodes |-> <<>>])
    ELSE node_list \o built

\* if file_node: dir_node['nodes'].append(file_node)
append_file_node(node_list, built) == node_list \o built

\* build_directory_tree: [exc, node, calls], calls the files handed to
\* build_file_tree; an exception ends the traversal
RECURSIVE build_directory_tree(_)
RECURSIVE add_subdirs(_, _)
RECURSIVE add_files(_, _)
add_subdirs(subdirs, acc) ==
    IF subdirs = <<>> \/ acc.exc # "" THEN acc
    ELSE LET sub == build_directory_tree(subdirs[1])
         IN  add_subdirs(Tail(subdirs),
                 [exc   |-> sub.exc,
                  nodes |-> IF sub.exc = "" /\ keeps_subdir(sub.node)
                            THEN Append(acc.nodes, sub.node) ELSE acc.nodes,
                  calls |-> acc.calls \o sub.calls])

add_files(files, acc) ==
    IF files = <<>> \/ acc.exc # "" THEN acc
    ELSE LET built == build_file_tree(files[1])
         IN  add_files(Tail(files),
                 [exc   |-> built.exc,
                  nodes |-> IF built.exc = "" THEN append_file_node(acc.nodes, built.node)
                            ELSE acc.nodes,
                  calls |-> Append(acc.calls, files[1].name)])

build_directory_tree(dir) ==
    LET dir_node == [title |-> Names[dir.name], type |-> "directory",
                     path |-> dir.name, nodes |-> <<>>]
    IN  IF dir.state = "denied" THEN [exc |-> "", node |-> dir_node, calls |-> <<>>]
        ELSE LET items   == SelectSeq(sorted(dir.children), LAMBDA e : ~e.skipped)
                 subdirs == SelectSeq(items, LAMBDA e : e.kind = "dir")
                 files   == SelectSeq(items, LAMBDA e : e.kind = "file" /\ is_supported(e))
                 done    == add_files(files,
                                add_subdirs(subdirs,
                                    [exc |-> "", nodes |-> <<>>, calls |-> <<>>]))
             IN  [exc |-> done.exc, node |-> [dir_node EXCEPT !.nodes = done.nodes],
                  calls |-> done.calls]

\* what a file system can hold at one name
EntryChoices ==
    {[kind |-> "dir",  ext |-> "",     state |-> "ok",         skipped |-> FALSE],
     [kind |-> "dir",  ext |-> "",     state |-> "denied",     skipped |-> FALSE],
     [kind |-> "dir",  ext |-> "",     state |-> "ok",         skipped |-> TRUE],
     [kind |-> "file", ext |-> ".py",  state |-> "ok",         skipped |-> FALSE],
     [kind |-> "file", ext |-> ".py",  state |-> "unreadable", skipped |-> FALSE],
     [kind |-> "file", ext |-> ".py",  state |-> "raises",     skipped |-> FALSE],
     [kind |-> "file", ext |-> ".py",  state |-> "ok",         skipped |-> TRUE],
     [kind |-> "file", ext |-> ".txt", state |-> "ok",         skipped |-> FALSE]}

\* the entry at row i of the table t with the entries below it; os.listdir
\* gives the names in no order, here the last created first
RECURSIVE MkEntry(_, _)
MkEntry(t, i) ==
    LET kids == SelectSeq([j \in 1..Len(t) |-> Len(t) + 1 - j], LAMBDA j : t[j].parent = i)
    IN  [name |-> i, kind |-> t[i].kind, ext |-> t[i].ext, state |-> t[i].state,
         skipped |-> t[i].skipped,
         children |-> [c \in 1..Len(kids) |-> MkEntry(t, kids[c])]]

\* the file systems of at most MaxEntries entries, row 1 the path given
RECURSIVE FileSystemGives(_, _)
FileSystemGives(t, root) ==
    \/ root = MkEntry(t, 1)
    \/ /\ Len(t) < MaxEntries
       /\ \E p \in 1..Len(t) :
             /\ t[p].kind = "dir" /\ t[p].state = "ok"
             /\ \E e \in EntryChoices :
                   FileSystemGives(Append(t, e @@ [parent |-> p]), root)

\* a slip: a path with an unsupported extension is built all the same
rejects_nothing(entry) == FALSE

\* if not path.endswith((...)): raise ValueError
rejects(entry) == ~is_supported(entry)

InitBuild ==
    /\ \/ target = [name |-> 1, kind |-> "missing", ext |-> "", state |-> "ok",
                    skipped |-> FALSE, children |-> <<>>]
       \/ \E e \in {c \in EntryChoices : ~c.skipped} :
             FileSystemGives(<<e @@ [parent |-> 0]>>, target)
    /\ built_files = <<>>
    /\ error = ""
    /\ opts = DefaultOpts
    /\ input = <<>>
    /\ structure = <<>>
    /\ pc = 0
    /\ gathering = FALSE
    /\ tasks = <<>>
    /\ outcome = "running"
    /\ result = <<>>
    /\ lang = "none"
    /\ tree = <<>>
    /\ lines = <<>>
    /\ current_brace_balance = 0
    /\ stack = <<>>
    /\ nodes = <<>>
    /\ import_start_line = 0
    /\ import_end_line = 0
    /\ file_node = <<>>

\* code_to_tree raises before it builds anything
Raise(message) ==
    /\ outcome' = "raised"
    /\ error' = message
    /\ UNCHANGED <<structure, pc, input>>

\* the structure is built and the stages of Pipeline come next
Built(struct) ==
    /\ structure' = struct
    /\ input' = struct
    /\ pc' = 1
    /\ UNCHANGED <<outcome, error>>

\* code_to_tree, the path is not there or is a file of another extension
RejectPath ==
    /\ pc = 0 /\ outcome = "running"
    /\ \/ target.kind = "missing" /\ Raise("Path does not exist")
       \/ target.kind = "file" /\ rejects(target)
            /\ Raise("File extension not supported")
    /\ UNCHANGED <<target, built_files, opts, gathering, tasks, result, extractVars>>

\* code_to_tree, the path is a file
BuildFromFile ==
    /\ pc = 0 /\ outcome = "running"
    /\ target.kind = "file" /\ ~rejects(target)
    /\ LET built == build_file_tree(target)
       IN  /\ built_files' = <<target.name>>
           /\ IF built.exc # "" THEN Raise(built.exc)
              ELSE IF built.node = <<>> THEN Raise("Failed to process path")
              ELSE Built(built.node[1])
    /\ UNCHANGED <<target, opts, gathering, tasks, result, extractVars>>

\* code_to_tree, the path is a directory
BuildFromDirectory ==
    /\ pc = 0 /\ outcome = "running"
    /\ target.kind = "dir"
    /\ LET built == build_directory_tree(target)
       IN  /\ built_files' = built.calls
           /\ IF built.exc # "" THEN Raise(built.exc) ELSE Built(built.node)
    /\ UNCHANGED <<target, opts, gathering, tasks, result, extractVars>>

NextBuild == RejectPath \/ BuildFromFile \/ BuildFromDirectory

SpecBuild == InitBuild /\ [][NextBuild]_vars

-----------------------------------------------------------------------------
(* Properties of the build step                                              *)

\* the entries at and below an entry
RECURSIVE EntriesIn(_)
EntriesIn(entry) ==
    {entry} \cup UNION {EntriesIn(entry.children[c]) : c \in 1..Len(entry.children)}

\* the build step of code_to_tree has run
BuildActed == pc = 1 \/ outcome = "raised"

\* the file system without the files of an unsupported extension
RECURSIVE WithoutUnsupported(_)
WithoutUnsupported(entry) ==
    LET kept == SelectSeq(entry.children, LAMBDA e : e.kind = "dir" \/ is_supported(e))
    IN  [entry EXCEPT !.children = [c \in 1..Len(kept) |-> WithoutUnsupported(kept[c])]]

UnsupportedNames ==
    {e.name : e \in {x \in EntriesIn(target) : x.kind = "file" /\ ~is_supported(x)}}

\* C15: a single file of an unsupported extension given as the path makes
\* code_to_tree raise "File extension not supported" before anything is
\* extracted and before any stage runs; met below a directory given as the
\* path, such a file raises nothing, is handed to no extractor, has no node
\* in the tree, and the traversal goes as if the file were not there
C15_UnsupportedRejectedOrAbsent ==
    BuildActed =>
        /\ (target.kind = "file" /\ ~is_supported(target)) =>
               /\ outcome = "raised"
               /\ error = "File extension not supported"
               /\ pc = 0
               /\ built_files = <<>>
        /\ target.kind = "dir" =>
               /\ error # "File extension not supported"
               /\ \A i \in 1..Len(built_files) : built_files[i] \notin UnsupportedNames
               /\ outcome = "running" =>
                      \A n \in NodesIn(structure) :
                          \A u \in UnsupportedNames : n.title # Names[u]
               /\ build_directory_tree(target)
                      = build_directory_tree(WithoutUnsupported(target))

\* a file of an unsupported extension was given and rejected
C15_Witness ==
    /\ target.kind = "file" /\ target.ext = ".txt"
    /\ outcome = "raised"
    /\ error = "File extension not supported"

\* a directory holding a file of an unsupported extension beside a supported
\* one was built
C15_TraversalCase ==
    /\ target.kind = "dir" /\ pc = 1 /\ outcome = "running"
    /\ \E c \in 1..Len(target.children) :
          target.children[c].kind = "file" /\ target.children[c].ext = ".txt"
    /\ Len(structure.nodes) > 0

\* a supported file that open() or the decoding of its bytes fails on
Unreadable(e) == e.kind = "file" /\ is_supported(e) /\ e.state = "unreadable"

\* the file system without its unreadable files
RECURSIVE WithoutUnreadable(_)
WithoutUnreadable(entry) ==
    LET kept == SelectSeq(entry.children, LAMBDA e : ~Unreadable(e))
    IN  [entry EXCEPT !.children = [c \in 1..Len(kept) |-> WithoutUnreadable(kept[c])]]

\* the files of a directory that the traversal lists, can read and has an
\* extractor for, by name
ReadableFiles(dir) ==
    SelectSeq(sorted(dir.children),
              LAMBDA e : e.kind = "file" /\ is_supported(e) /\ ~e.skipped /\ e.state = "ok")

\* the titles of the file nodes among the children of a node, in order
FileTitles(node) ==
    LET fs == SelectSeq(node.nodes, LAMBDA n : n.type = "file")
    IN  [c \in 1..Len(fs) |-> fs[c].title]

\* the directory of the file system that a directory node was built from
EntryOf(node) == CHOOSE d \in EntriesIn(target) : d.name = node.path

\* C16: in a directory traversal an unreadable file of a supported extension
\* raises nothing and changes nothing else: the traversal ends as it does
\* without the file, and in the tree it returns the file nodes under each
\* directory node are exactly the listed, supported, readable files of that
\* directory, once each, and no other child is there but directory nodes
C16_UnreadableFileOmitted ==
    (BuildActed /\ target.kind = "dir") =>
        /\ LET with    == build_directory_tree(target)
               without == build_directory_tree(WithoutUnreadable(target))
           IN  with.exc = without.exc /\ with.node = without.node
        /\ outcome = "running" =>
               \A n \in NodesIn(structure) :
                   n.type = "directory" =>
                       /\ FileTitles(n)
                              = [c \in 1..Len(ReadableFiles(EntryOf(n))) |->
                                    Names[ReadableFiles(EntryOf(n))[c].name]]
                       /\ \A c \in 1..Len(n.nodes) :
                              n.nodes[c].type \in {"file", "directory"}

\* a directory with an unreadable file and a readable one was built
C16_Witness ==
    /\ target.kind = "dir" /\ pc = 1 /\ outcome = "running"
    /\ \E c \in 1..Len(target.children) :
          Unreadable(target.children[c]) /\ ~target.children[c].skipped
    /\ Len(ReadableFiles(target)) > 0
    /\ Len(FileTitles(structure)) = Len(ReadableFiles(target))

\* a directory of the file system with a listed, supported, readable file at
\* or below it
RECURSIVE HoldsCode(_)
HoldsCode(dir) ==
    /\ dir.state = "ok"
    /\ \/ Len(ReadableFiles(dir)) > 0
       \/ \E c \in 1..Len(dir.children) :
             /\ dir.children[c].kind = "dir"
             /\ ~dir.children[c].skipped
             /\ HoldsCode(dir.children[c])

\* the subdirectories of a directory that the traversal lists, by name
ListedSubdirs(dir) ==
    SelectSeq(sorted(dir.children), LAMBDA e : e.kind = "dir" /\ ~e.skipped)

\* the titles of the directory nodes among the children of a node, in order
SubdirTitles(node) ==
    LET ds == SelectSeq(node.nodes, LAMBDA n : n.type = "directory")
    IN  [c \in 1..Len(ds) |-> ds[c].title]

\* C17: in the tree built from a directory every directory node but the root
\* has a file node below it, and the directory nodes under a directory node
\* are exactly the listed subdirectories with a readable supported file at
\* or below them: a subdirectory whose files were all left out as unreadable
\* is left out too
C17_SubdirsHoldFiles ==
    (target.kind = "dir" /\ pc = 1 /\ outcome = "running") =>
        \A n \in NodesIn(structure) :
            n.type = "directory" =>
                /\ n # structure =>
                       \E m \in NodesIn(n) : m.type = "file"
                /\ LET kept == SelectSeq(ListedSubdirs(EntryOf(n)), HoldsCode)
                   IN  SubdirTitles(n) = [c \in 1..Len(kept) |-> Names[kept[c].name]]

\* a subdirectory with a readable file below it has its node in the tree
C17_Witness ==
    /\ target.kind = "dir" /\ pc = 1 /\ outcome = "running"
    /\ \E n \in NodesIn(structure) :
          /\ n.type = "directory" /\ n # structure
          /\ \E m \in NodesIn(n) : m.type = "file"

\* a subdirectory whose only file is unreadable has no node in the tree
C17_UnreadableOnlyCase ==
    /\ target.kind = "dir" /\ pc = 1 /\ outcome = "running"
    /\ \E c \in 1..Len(target.children) :
          LET d == target.children[c]
          IN  /\ d.kind = "dir" /\ ~d.skipped /\ d.state = "ok"
              /\ Len(d.children) = 1 /\ Unreadable(d.children[1])
              /\ ~d.children[1].skipped
    /\ SubdirTitles(structure) = <<>>

-----------------------------------------------------------------------------
(* Properties of the Python extractor                                        *)

PythonExtracted == Extracted /\ lang = "python" /\ tree.kind = "Module"

IsImport(stmt) == stmt.kind \in {"Import", "ImportFrom"}

\* the positions in tree.body at which a run of import statements starts
RunStarts(body) ==
    {i \in 1..Len(body) : IsImport(body[i]) /\ (i = 1 \/ ~IsImport(body[i - 1]))}

\* the position at which the run that starts at i ends
RunEnd(body, i) ==
    CHOOSE j \in i..Len(body) :
        /\ \A k \in i..j : IsImport(body[k])
        /\ j = Len(body) \/ ~IsImport(body[j + 1])

\* the k-th run of import statements, as [first, last]
Run(body, k) ==
    LET first == CHOOSE s \in RunStarts(body) :
                     Cardinality({x \in RunStarts(body) : x < s}) = k - 1
    IN  [first |-> first, last |-> RunEnd(body, first)]

\* C20: the imports nodes the Python extractor returns are, in order, the
\* maximal runs of consecutive top-level import statements: the k-th imports
\* node spans from the start line of the first statement of the k-th run to
\* the end line of its last statement and has one import child per statement
\* of the run, in order, with the statement's own span; a run at the end of
\* the file has its node too, and no imports node is anywhere else
C20_ImportsNodesAreImportRuns ==
    PythonExtracted =>
        LET body    == tree.body
            imports == SelectSeq(nodes, LAMBDA n : n.type = "imports")
        IN  /\ Len(imports) = Cardinality(RunStarts(body))
            /\ \A k \in 1..Len(imports) :
                   LET run == Run(body, k)
                       n   == imports[k]
                   IN  /\ n.start_line = body[run.first].lineno
                       /\ n.end_line = body[run.last].end_lineno
                       /\ Len(n.nodes) = run.last - run.first + 1
                       /\ \A c \in 1..Len(n.nodes) :
                              /\ n.nodes[c].type = "import"
                              /\ n.nodes[c].title = body[run.first + c - 1].name
                              /\ n.nodes[c].start_line = body[run.first + c - 1].lineno
                              /\ n.nodes[c].end_line = body[run.first + c - 1].end_lineno
                              /\ n.nodes[c].nodes = <<>>
            /\ \A i \in 1..Len(nodes) : \A m \in NodesIn(nodes[i]) :
                   m.type = "imports" => m = nodes[i]

\* two runs were extracted: one of two statements ended by another statement,
\* and one at the end of the file whose last statement takes two lines
C20_Witness ==
    /\ PythonExtracted
    /\ Cardinality(RunStarts(tree.body)) = 2
    /\ \E k \in 1..2 : Run(tree.body, k).last > Run(tree.body, k).first
    /\ IsImport(tree.body[Len(tree.body)])
    /\ tree.body[Len(tree.body)].end_lineno > tree.body[Len(tree.body)].lineno
    /\ Len(SelectSeq(nodes, LAMBDA n : n.type = "imports")) = 2

-----------------------------------------------------------------------------
(* Properties of the returned structure                                      *)

\* the tree code_to_tree hands back
Returned == result[1].structure[1]

\* C21: no node of the returned structure has a path, under any options; with
\* if_add_node_text = 'no' no node has a text; otherwise every node that had a
\* text when the tree was thinned and pruned still has that text
C21_NoPathAndTextAsAsked ==
    outcome = "returned" =>
        /\ \A n \in NodeSet(Returned) : "path" \notin DOMAIN n
        /\ opts.if_add_node_text = "no" =>
               \A n \in NodeSet(Returned) : "text" \notin DOMAIN n
        /\ opts.if_add_node_text # "no" =>
               /\ structure_to_list(Returned, <<>>) = structure_to_list(ThinnedInput, <<>>)
               /\ \A p \in SeqRange(structure_to_list(Returned, <<>>)) :
                      "text" \in DOMAIN NodeAt(ThinnedInput, p) =>
                          /\ "text" \in DOMAIN NodeAt(Returned, p)
                          /\ NodeAt(Returned, p).text = NodeAt(ThinnedInput, p).text

\* a tree with a directory, a file below it and a node below that was
\* returned with its texts
C21_Witness ==
    /\ outcome = "returned" /\ opts.if_add_node_text = "yes"
    /\ "path" \in DOMAIN input /\ input.type = "directory"
    /\ \E p \in SeqRange(structure_to_list(input, <<>>)) :
          Len(p) = 2 /\ "path" \in DOMAIN NodeAt(input, <<p[1]>>)
    /\ \E n \in NodeSet(Returned) : "text" \in DOMAIN n

\* a tree whose nodes had texts was returned without them
C21_TextExcludedCase ==
    /\ outcome = "returned" /\ opts.if_add_node_text = "no"
    /\ Len(AllNodes(Returned)) > 2
    /\ \E n \in NodeSet(input) : "text" \in DOMAIN n

-----------------------------------------------------------------------------
(* Properties of the scanner's scope stack                                   *)

\* the baselines do not decrease from the outermost frame to the innermost
BaselinesOrdered(stk) ==
    \A i \in 1..(Len(stk) - 1) : stk[i].start_balance <= stk[i + 1].start_balance

\* the frame on top of stk was pushed by line line_num
PushedAt(stk, ns, line_num) ==
    stk # <<>> /\ ns[stk[Len(stk)].node].start_line = line_num

\* the step of a line that is not an import line: the frames left by its
\* scope-closing step are the old stack without the popped ones, all of them
\* have a baseline below the new balance, and every popped node ends on
\* this line
ScopeClosingStep ==
    (lang = "kotlin" /\ lines' # lines /\ ~is_import(lines'[Len(lines')])) =>
        LET line_num  == Len(lines')
            remaining == IF PushedAt(stack', nodes', line_num)
                         THEN SubSeq(stack', 1, Len(stack') - 1) ELSE stack'
        IN  /\ Len(remaining) <= Len(stack)
            /\ remaining = SubSeq(stack, 1, Len(remaining))
            /\ \A i \in 1..Len(remaining) :
                   remaining[i].start_balance < current_brace_balance'
            /\ \A i \in (Len(remaining) + 1)..Len(stack) :
                   nodes'[stack[i].node].end_line = line_num

\* C22: after the scope-closing step of every line every frame left on the
\* stack, not only the innermost, has a baseline strictly below the running
\* balance; the baselines never decrease from the outermost frame to the
\* innermost; every popped node gets the number of the popping line as end_line
C22_ScopeStackOrdered == [][ScopeClosingStep /\ BaselinesOrdered(stack')]_vars

\* a line has popped one frame and left two on the stack
C22_Witness ==
    /\ lang = "kotlin" /\ Len(stack) >= 2
    /\ stack[1].start_balance < stack[2].start_balance
    /\ \E r \in 1..Len(nodes) :
          /\ nodes[r].end_line > nodes[r].start_line
          /\ \A i \in 1..Len(stack) : stack[i].node # r

-----------------------------------------------------------------------------
(* The scanner on lines with comments and quoted literals                    *)

\* lines with braces in a line comment or in a quoted literal, next to lines
\* with braces of the code
LiteralLineSet ==
    { <<"class", "id", "//", "{">>,
      <<"class", "id", "{", "//", "}">>,
      <<"fun", "id", "\"", "{", "\"">>,
      <<"id", "'", "}", "'">>,
      <<"//", "{">>,
      <<"fun", "id", "{">>,
      <<"{">>,
      <<"}">> }

InitLiterals == InitExtract /\ lang = "kotlin"

KtScanLiteralLine == KtScanLineFrom(LiteralLineSet)

NextLiterals == KtScanLiteralLine \/ KtFinish

SpecLiterals == InitLiterals /\ [][NextLiterals]_vars

\* the line with every brace of a line comment or of a quoted literal
\* replaced by a word; mode is "" in the code, or the quote character or "//"
\* of the stretch the tokens are in
RECURSIVE WithoutHiddenBraces(_, _)
WithoutHiddenBraces(toks, mode) ==
    IF toks = <<>> THEN <<>>
    ELSE LET tok == toks[1]
         IN  IF mode = ""
             THEN <<tok>> \o WithoutHiddenBraces(Tail(toks),
                                 IF tok \in {"//", "\"", "'"} THEN tok ELSE "")
             ELSE IF mode # "//" /\ tok = mode
             THEN <<tok>> \o WithoutHiddenBraces(Tail(toks), "")
             ELSE <<IF tok \in {"{", "}"} THEN "id" ELSE tok>>
                  \o WithoutHiddenBraces(Tail(toks), mode)

\* C23 as claimed: the scanner returns for a text the node tree it returns
\* for the same text with the braces of its comments and literals replaced
C23_Claimed ==
    (Extracted /\ lang = "kotlin") =>
        nested_nodes(nodes, 0)
            = nested_nodes(kt_scan(kt_start,
                               [i \in 1..Len(lines) |-> WithoutHiddenBraces(lines[i], "")]),
                           0)

-----------------------------------------------------------------------------
(* One declaration a line, its kind and its parent                           *)

\* the rows the step has added to the store that are declarations
DeclaredByStep ==
    {r \in (Len(nodes) + 1)..Len(nodes') : nodes'[r].type # "imports"}

\* the step of one line: it adds at most one declaration, which starts on
\* this line and whose frame is the new top of the stack; the declaration
\* hangs below the innermost frame the scope-closing step has left open (the
\* root list when none is left); a function is a method when that frame is a
\* class, interface, object or enum, and a function otherwise
DeclaringStep ==
    (lang = "kotlin" /\ lines' # lines) =>
        LET line_num == Len(lines')
        IN  /\ Cardinality(DeclaredByStep) <= 1
            /\ \A r \in 1..Len(nodes) : nodes'[r].type = nodes[r].type
                                        /\ nodes'[r].parent = nodes[r].parent
            /\ DeclaredByStep = {} => Len(stack') <= Len(stack)
            /\ \A r \in DeclaredByStep :
                  LET open   == SubSeq(stack', 1, Len(stack') - 1)
                      parent == IF open = <<>> THEN 0 ELSE open[Len(open)].node
                  IN  /\ stack' # <<>> /\ stack'[Len(stack')].node = r
                      /\ Len(open) <= Len(stack) /\ open = SubSeq(stack, 1, Len(open))
                      /\ \A i \in 1..Len(open) :
                             open[i].start_balance < current_brace_balance'
                      /\ nodes'[r].start_line = line_num
                      /\ nodes'[r].parent = parent
                      /\ nodes'[r].type \in {"class", "interface", "object", "enum",
                                             "method", "function"}
                      /\ nodes'[r].type = "method" =>
                             /\ parent # 0
                             /\ nodes'[parent].type
                                    \in {"class", "interface", "object", "enum"}
                      /\ nodes'[r].type = "function" =>
                             \/ parent = 0
                             \/ nodes'[parent].type \in {"function", "method"}

-----------------------------------------------------------------------------
(* The summaries and the order the requests complete in                      *)

\* the tree the summary stage starts from
BeforeSummaries ==
    IF opts.if_add_node_id = "yes" THEN add_node_ids(ThinnedInput) ELSE ThinnedInput

\* the summary the request of this node returns when it succeeds
OwnSummary(node) ==
    IF count_tokens(Get(node, "text", <<>>)) < opts.summary_token_threshold
    THEN local_summary(node)
    ELSE <<"response to", node.title>>

\* the node with the summary of its own request in the field its children decide
WithOwnSummary(node) ==
    IF Get(node, "nodes", <<>>) # <<>>
    THEN [prefix_summary |-> OwnSummary(node)] @@ node
    ELSE [summary |-> OwnSummary(node)] @@ node

\* the tree with the answer to its own request on every node of a summarized
\* kind and every other node as it is
RECURSIVE WithOwnSummaries(_)
WithOwnSummaries(node) ==
    LET kids == Get(node, "nodes", <<>>)
        own  == IF node.type \in {"class", "function", "method", "interface",
                                  "enum", "file"}
                THEN WithOwnSummary(node) ELSE node
    IN  IF "nodes" \in DOMAIN node
        THEN [own EXCEPT !.nodes = [c \in 1..Len(kids) |-> WithOwnSummaries(kids[c])]]
        ELSE own

\* C25: whatever the order the requests complete in, when all of them succeed
\* the summary stage leaves one tree: every node of a summarized kind is the
\* node the stage started from with the answer to its own request, and every
\* other node is as the stage found it
C25_SummariesIndependentOfCompletionOrder ==
    (JustAfter("summaries") /\ opts.if_add_node_summary = "yes") =>
        structure = WithOwnSummaries(BeforeSummaries)

\* the stage has ended on a tree with two answers of the model, a summary made
\* without a request and a node of a kind that is not summarized
C25_Witness ==
    /\ JustAfter("summaries") /\ opts.if_add_node_summary = "yes"
    /\ \E i, j \in 1..Len(tasks) :
          /\ i # j
          /\ tasks[i].summary[1] = "response to" /\ tasks[j].summary[1] = "response to"
    /\ \E i \in 1..Len(tasks) : tasks[i].summary[1] # "response to"
    /\ \E n \in NodeSet(structure) : n.type \notin SummaryKinds

-----------------------------------------------------------------------------
(* The summary stage on nodes with docstrings and long texts                 *)

\* a text of n characters
Chars(n) == [i \in 1..n |-> "x"]

\* the threshold of the runs below: above the characters a local summary keeps
LongSummaryThreshold == LocalSummaryChars + 2

\* the declarations of the file: without a docstring, with a docstring of one
\* line that ends in a blank, with one of two lines, with a text longer than
\* the local summary keeps, with a text of as many tokens as the threshold,
\* and an imports node
SummaryChoices ==
    { [type |-> "function", text |-> <<"x">>, docstring |-> <<>>],
      [type |-> "function", text |-> <<"x", "x", "\n">>, docstring |-> <<"d", " ">>],
      [type |-> "class", text |-> <<"x">>, docstring |-> <<"d", "\n", "e">>],
      [type |-> "function", text |-> Chars(LongSummaryThreshold - 1), docstring |-> <<>>],
      [type |-> "function", text |-> Chars(LongSummaryThreshold), docstring |-> <<"d">>],
      [type |-> "imports", text |-> <<"x">>, docstring |-> <<>>] }

\* the file node of build_python_file_tree with these declarations
summary_input(decls) ==
    [title |-> Names[1], type |-> "file", path |-> "p",
     text |-> IF decls = <<>> THEN <<"x">>
              ELSE Flatten([i \in 1..Len(decls) |-> decls[i].text]),
     nodes |-> [i \in 1..Len(decls) |->
                   [title |-> Names[i + 1], nodes |-> <<>>] @@ decls[i]]]

\* code_to_tree has reached the summary stage with summaries asked for
InitSummaries ==
    /\ \E n \in 0..(MaxNodes - 1) :
          \E decls \in [1..n -> SummaryChoices] : input = summary_input(decls)
    /\ opts = [if_thinning |-> FALSE, min_token_threshold |-> DefaultMinTokenThreshold,
               if_add_node_summary |-> "yes",
               summary_token_threshold |-> LongSummaryThreshold,
               if_add_doc_description |-> "no", if_add_node_text |-> "no",
               if_add_node_id |-> "no"]
    /\ structure = input
    /\ pc = CHOOSE i \in 1..Len(Pipeline) : Pipeline[i] = "summaries"
    /\ gathering = FALSE
    /\ tasks = <<>>
    /\ outcome = "running"
    /\ result = <<>>
    /\ lang = "none"
    /\ tree = <<>>
    /\ lines = <<>>
    /\ current_brace_balance = 0
    /\ stack = <<>>
    /\ nodes = <<>>
    /\ import_start_line = 0
    /\ import_end_line = 0
    /\ file_node = <<>>
    /\ target = <<>> /\ built_files = <<>> /\ error = ""

NextSummaries ==
    \/ StartSummaries
    \/ \E i \in 1..Len(tasks) : TaskStep(i)
    \/ GatherReturn
    \/ GatherRaise

SpecSummaries == InitSummaries /\ [][NextSummaries]_vars

\* the request of task i has gone to the model
CalledModel(i) ==
    \/ tasks[i].status = "failed"
    \/ tasks[i].status = "done" /\ tasks[i].summary[1] = "response to"

\* the tasks of the batch are the nodes of the summarized kinds, one task each
OneTaskPerFilteredNode ==
    gathering =>
        /\ \A i, j \in 1..Len(tasks) : i # j => tasks[i].path # tasks[j].path
        /\ {tasks[i].path : i \in 1..Len(tasks)}
               = {p \in SeqRange(structure_to_list(structure, <<>>)) :
                     NodeAt(structure, p).type \in {"class", "function", "method",
                                                    "interface", "enum", "file"}}

\* the first characters of the text, LocalSummaryChars at most
TextHead(node) == SubSeq(node.text, 1, Min(Len(node.text), LocalSummaryChars))

-----------------------------------------------------------------------------
(* The end lines the coarse-AST extractor estimates                          *)

JavaExtracted == Extracted /\ lang = "java" /\ tree.kind # "error"

JavaMapped ==
    {"ClassDeclaration", "InterfaceDeclaration", "EnumDeclaration",
     "MethodDeclaration", "ConstructorDeclaration"}

\* the members of a declaration the extractor makes nodes of, in source order
MappedMembers(ast_node) == SelectSeq(ast_node.body, LAMBDA d : d.kind \in JavaMapped)

\* the type declarations of the file and the nodes made of them
JavaTypes == SelectSeq(tree.body, LAMBDA d : d.kind # "Import")

JavaTypeNodes == SelectSeq(file_node[1].nodes, LAMBDA n : n.type # "imports")

\* the end line of the node n made of the method or constructor ast_node
MethodEndAsClaimed(ast_node, n) ==
    IF ast_node.body # <<>> /\ ast_node.body[Len(ast_node.body)].positioned
    THEN n.end_line = ast_node.body[Len(ast_node.body)].lineno + 1
    ELSE n.end_line = n.start_line

\* the node n made of ast_node, and every node below it, has the end line
\* claimed: for a type the largest end line of its children
RECURSIVE EndLinesAsClaimed(_, _)
EndLinesAsClaimed(ast_node, n) ==
    IF ast_node.kind \in {"MethodDeclaration", "ConstructorDeclaration"}
    THEN MethodEndAsClaimed(ast_node, n)
    ELSE /\ Len(n.nodes) = Len(MappedMembers(ast_node))
         /\ IF n.nodes = <<>> THEN n.end_line = n.start_line
            ELSE n.end_line = SetMax({n.nodes[c].end_line : c \in 1..Len(n.nodes)})
         /\ \A c \in 1..Len(n.nodes) :
                EndLinesAsClaimed(MappedMembers(ast_node)[c], n.nodes[c])

\* the same with the end line of a type never above its start line
RECURSIVE EndLinesFromStart(_, _)
EndLinesFromStart(ast_node, n) ==
    IF ast_node.kind \in {"MethodDeclaration", "ConstructorDeclaration"}
    THEN MethodEndAsClaimed(ast_node, n)
    ELSE /\ Len(n.nodes) = Len(MappedMembers(ast_node))
         /\ n.end_line = SetMax({n.start_line}
                                \cup {n.nodes[c].end_line : c \in 1..Len(n.nodes)})
         /\ \A c \in 1..Len(n.nodes) :
                EndLinesFromStart(MappedMembers(ast_node)[c], n.nodes[c])

\* C27 as claimed: the end line of a class, interface or enum node is the
\* largest end line of its children, its start line when it has none
C27_Claimed ==
    JavaExtracted =>
        /\ Len(JavaTypeNodes) = Len(JavaTypes)
        /\ \A c \in 1..Len(JavaTypes) : EndLinesAsClaimed(JavaTypes[c], JavaTypeNodes[c])

\* C27 amended: the end line of a class, interface or enum node is the
\* larger of its start line and the largest end line of its children (its
\* start line when it has none); the end line of a method or constructor node
\* is the line of the last statement of its body plus one, or its start
\* line when the body is empty or the last statement has no position
C27_EndLineEstimates ==
    JavaExtracted =>
        /\ Len(JavaTypeNodes) = Len(JavaTypes)
        /\ \A c \in 1..Len(JavaTypes) : EndLinesFromStart(JavaTypes[c], JavaTypeNodes[c])

\* a class that ends where its method ends, one line below the method's
\* last statement
C27_Witness ==
    /\ JavaExtracted
    /\ \E c \in 1..Len(JavaTypes) :
          LET class == JavaTypeNodes[c]
              decl  == JavaTypes[c]
          IN  /\ class.nodes # <<>>
              /\ class.end_line > class.start_line
              /\ class.end_line = class.nodes[Len(class.nodes)].end_line
              /\ \E m \in 1..Len(class.nodes) :
                    LET body == MappedMembers(decl)[m].body
                    IN  /\ class.nodes[m].type = "method"
                        /\ body # <<>> /\ body[Len(body)].positioned
                        /\ class.nodes[m].end_line = body[Len(body)].lineno + 1

\* a class below the first line whose only member has no position
C27_MemberWithoutPositionCase ==
    /\ JavaExtracted
    /\ \E n \in NodesIn(file_node[1]) :
          /\ n.type = "class" /\ n.nodes # <<>>
          /\ \A c \in 1..Len(n.nodes) : n.nodes[c].end_line < n.start_line

-----------------------------------------------------------------------------
(* The order of the lists of the scanner                                     *)

\* start_line grows strictly along the list
InSourceOrder(ns) ==
    \A c \in 1..(Len(ns) - 1) : ns[c].start_line < ns[c + 1].start_line

\* C28: in the scanner's output the root list and the children list of every
\* node are in source order: start_line grows strictly along each list, the
\* imports nodes included, which join the root list when their run is flushed
C28_ListsInSourceOrder ==
    (Extracted /\ lang = "kotlin") =>
        \A n \in NodesIn(file_node[1]) : InSourceOrder(n.nodes)

\* a root list with an imports node between two declarations
C28_Witness ==
    /\ Extracted /\ lang = "kotlin"
    /\ \E c \in 2..(Len(file_node[1].nodes) - 1) :
          /\ file_node[1].nodes[c].type = "imports"
          /\ file_node[1].nodes[c - 1].type # "imports"
          /\ file_node[1].nodes[c + 1].type # "imports"

\* a node with two children, the second declared after the first was closed
C28_ChildrenCase ==
    /\ Extracted /\ lang = "kotlin"
    /\ \E n \in NodesIn(file_node[1]) :
          /\ n.type = "class" /\ Len(n.nodes) >= 2
          /\ n.nodes[1].end_line < n.nodes[2].start_line

-----------------------------------------------------------------------------
(* The frames left at the end of a balanced text                             *)

\* the running balance is never negative and is zero after the last line
Balanced ==
    /\ \A i \in 1..Len(lines) : Depth(i) >= 0
    /\ Depth(Len(lines)) = 0

\* C29 as claimed: at the end of the scan of a text with balanced braces
\* every frame pushed has been popped, a declaration that opens and closes
\* its braces on one line included
C29_Claimed ==
    (Extracted /\ lang = "kotlin" /\ Balanced) => stack = <<>>

\* the scan of a balanced text has ended with the frame of a declaration
\* that has both its braces on its line, followed by a closed class
C29_OneLineBodyCase ==
    /\ Extracted /\ lang = "kotlin" /\ Balanced
    /\ \A r \in 1..Len(nodes) : Count(lines[nodes[r].start_line], "{") = 1
    /\ Len(nodes) = 2 /\ nodes[2].end_line > nodes[2].start_line
    /\ stack # <<>>
    /\ lines[nodes[stack[1].node].start_line] = <<"fun", "id", "{", "}">>
    /\ nodes[stack[1].node].end_line = nodes[stack[1].node].start_line

====
